---------------------------- MODULE Spec2Model ----------------------------
(***************************************************************************)
(* Webhook receiver: in-memory bounded store (WebhooksStorage), per-client *)
(* rate limiter (RateLimitGuard, installed as the global APP_GUARD) and    *)
(* the service/controller that sequence them (WebhooksService,             *)
(* WebhooksController).                                                    *)
(*                                                                         *)
(* Ten specifications share the variables:                                 *)
(*   StoreSpec    calls the storage class directly, with arbitrary events  *)
(*                (as webhooks.storage.spec.ts does);                      *)
(*   RateSpec     calls the guard directly, for two client identities,     *)
(*                while the clock advances;                                *)
(*   ServiceSpec  calls the service directly (as webhooks.service.spec.ts  *)
(*                does);                                                   *)
(*   VerifySpec   applies verifySignature to payloads and tags;            *)
(*   QuerySpec    makes one list query on a populated store;               *)
(*   RateLiveSpec is RateSpec for clients without a proxy, with fairness;  *)
(*   IdentitySpec calls the guard for requests of every origin;            *)
(*   ConcRateSpec has several requests in flight at the guard;             *)
(*   ConcStoreSpec has several calls of save in flight;                    *)
(*   Spec         drives HTTP requests through guard -> controller.        *)
(***************************************************************************)
EXTENDS Integers, Sequences, FiniteSets, TLC

VARIABLES
    webhooks,        \* WebhooksStorage.webhooks: insertion-ordered Map, as a sequence of events
    maxStorageSize,  \* WebhooksStorage.maxStorageSize
    requests,        \* RateLimitGuard.requests: identity -> [count, resetTime]
    maxRequests,     \* RateLimitGuard.maxRequests
    windowMs,        \* RateLimitGuard.windowMs
    webhookSecret,   \* WebhooksService.webhookSecret
    now,             \* the wall clock read by Date.now() / new Date(), in ms
    issued,          \* number of identifiers randomUUID() has handed out
    pc,              \* where the request in flight is: "idle", "guard", "handler"
    req,             \* the request in flight (or the last one handled)
    resp,            \* the response to the last request / return value of the last storage call
    fifoLog,         \* history: ids saved since the store was last cleared, while no delete or re-save happened
    admitted,        \* history: identity -> times of the requests admitted in its current window, windows opened
    rejection        \* history: identity -> the pending rejection [at, retryAfter] of its last request

vars == <<webhooks, maxStorageSize, requests, maxRequests, windowMs, webhookSecret,
          now, issued, pc, req, resp, fifoLog, admitted, rejection>>

(***************************************************************************)
(* Bounds of the model                                                     *)
(***************************************************************************)
MaxCapacity == 2        \* store capacities 0..MaxCapacity
MaxRate == 2            \* rate limits 0..MaxRate
MaxTicks == 4           \* the clock advances at most this many times
MaxUuids == 2           \* submissions that reach create()
DigestBytes == 2        \* length of the (abstracted) HMAC digest, in bytes

TickSteps == {500}              \* ms the clock advances by in one step
WindowDurations == {0, 1000, 1500}    \* values of RATE_LIMIT_WINDOW_MS

\* An optional value (T | undefined) is a set with at most one element
None == {}
Some(x) == {x}
Get(opt) == CHOOSE x \in opt : TRUE
Default(opt, d) == IF opt = None THEN d ELSE Get(opt)

Sources == <<"stripe", "github">>
Events == <<"push">>
Payloads == <<"p", "q">>
Secrets == <<"", "s3cret">>

Range(s) == {s[i] : i \in 1..Len(s)}
IndexOf(s, x) == CHOOSE i \in 1..Len(s) : s[i] = x

(***************************************************************************)
(* WebhooksStorage                                                         *)
(***************************************************************************)
Keys(ws) == [i \in 1..Len(ws) |-> ws[i].id]

Has(ws, id) == \E i \in 1..Len(ws) : ws[i].id = id

\* Map.delete(key): removes the entry, keeps the order of the others
MapDelete(ws, id) == SelectSeq(ws, LAMBDA w : w.id # id)

\* mutant of MapSet: a new key goes first
MapSetFirst(ws, w) ==
    IF Has(ws, w.id)
    THEN [i \in 1..Len(ws) |-> IF ws[i].id = w.id THEN w ELSE ws[i]]
    ELSE <<w>> \o ws

\* Map.set(key, value): a present key keeps its position, a new key goes last
MapSet(ws, w) ==
    IF Has(ws, w.id)
    THEN [i \in 1..Len(ws) |-> IF ws[i].id = w.id THEN w ELSE ws[i]]
    ELSE Append(ws, w)

\* if (oldestKey): undefined (empty Map) and the empty string are falsy
Truthy(ws) == Len(ws) > 0 /\ ws[1].id # ""

\* mutant of save: eviction removes the event with the oldest receivedAt
saveEvictsOldestReceivedAt(ws, cap, w) ==
    LET oldest == CHOOSE x \in Range(ws) : \A y \in Range(ws) : x.receivedAt <= y.receivedAt
        room == IF Len(ws) >= cap /\ Truthy(ws) THEN MapDelete(ws, oldest.id) ELSE ws
    IN  MapSet(room, w)

\* mutant of save: eviction starts one event before the store is full
saveEvictsEarly(ws, cap, w) ==
    LET room == IF Len(ws) + 1 >= cap /\ Truthy(ws) THEN MapDelete(ws, ws[1].id) ELSE ws
    IN  MapSet(room, w)

save(ws, cap, w) ==
    LET room == IF Len(ws) >= cap /\ Truthy(ws) THEN MapDelete(ws, ws[1].id) ELSE ws
    IN  MapSet(room, w)

getById(ws, id) == IF Has(ws, id) THEN {ws[IndexOf(Keys(ws), id)]} ELSE {}

count(ws) == Len(ws)

clear(ws) == <<>>

\* mutant of delete: reports success whether or not the id was present
deleteAlwaysTrue(ws, id) == [deleted |-> TRUE, webhooks |-> MapDelete(ws, id)]

\* mutant of delete: the last entry is moved into the place of the removed one
deleteSwapsLast(ws, id) ==
    [deleted |-> Has(ws, id),
     webhooks |-> IF ~Has(ws, id) THEN ws
                  ELSE LET k == IndexOf(Keys(ws), id)
                       IN  [i \in 1..(Len(ws) - 1) |-> IF i = k THEN ws[Len(ws)] ELSE ws[i]]]

delete(ws, id) == [deleted |-> Has(ws, id), webhooks |-> MapDelete(ws, id)]

\* Array.prototype.sort with (a, b) => b.receivedAt - a.receivedAt: stable,
\* so events with equal receivedAt keep their array (insertion) order
RECURSIVE sortByReceivedAtDesc(_)
sortByReceivedAtDesc(arr) ==
    IF arr = <<>> THEN <<>>
    ELSE LET init == sortByReceivedAtDesc(SubSeq(arr, 1, Len(arr) - 1))
             x == arr[Len(arr)]
             k == Cardinality({i \in 1..Len(init) : init[i].receivedAt >= x.receivedAt})
         IN  SubSeq(init, 1, k) \o <<x>> \o SubSeq(init, k + 1, Len(init))

\* Array.prototype.slice(start, end) for 0 <= start <= end
slice(arr, start, end) ==
    LET lo == IF start < Len(arr) THEN start ELSE Len(arr)
        hi == IF end < Len(arr) THEN end ELSE Len(arr)
    IN  SubSeq(arr, lo + 1, hi)

\* mutant of getAll: the event filter is applied to the unfiltered array
getAllEventOnUnfiltered(ws, options) ==
    LET bySource == IF options.source # None /\ Get(options.source) # ""
                    THEN SelectSeq(ws, LAMBDA w : w.source = Get(options.source))
                    ELSE ws
        byEvent  == IF options.event # None /\ Get(options.event) # ""
                    THEN SelectSeq(ws, LAMBDA w : w.event = Get(options.event))
                    ELSE bySource
        sorted   == sortByReceivedAtDesc(byEvent)
        page     == IF options.page = None \/ Get(options.page) = 0 THEN 1 ELSE Get(options.page)
        limit    == IF options.limit = None \/ Get(options.limit) = 0 THEN 10 ELSE Get(options.limit)
        startIndex == (page - 1) * limit
    IN  [webhooks |-> slice(sorted, startIndex, startIndex + limit), total |-> Len(sorted)]

\* mutant of getAll: the page number is taken as 0-indexed
getAllZeroIndexedPage(ws, options) ==
    LET bySource == IF options.source # None /\ Get(options.source) # ""
                    THEN SelectSeq(ws, LAMBDA w : w.source = Get(options.source))
                    ELSE ws
        byEvent  == IF options.event # None /\ Get(options.event) # ""
                    THEN SelectSeq(bySource, LAMBDA w : w.event = Get(options.event))
                    ELSE bySource
        sorted   == sortByReceivedAtDesc(byEvent)
        page     == IF options.page = None \/ Get(options.page) = 0 THEN 1 ELSE Get(options.page)
        limit    == IF options.limit = None \/ Get(options.limit) = 0 THEN 10 ELSE Get(options.limit)
        startIndex == page * limit
    IN  [webhooks |-> slice(sorted, startIndex, startIndex + limit), total |-> Len(sorted)]

\* mutant of getAll: a filter that is the empty string is applied like any other
getAllEmptyFilterApplies(ws, options) ==
    LET bySource == IF options.source # None
                    THEN SelectSeq(ws, LAMBDA w : w.source = Get(options.source))
                    ELSE ws
        byEvent  == IF options.event # None
                    THEN SelectSeq(bySource, LAMBDA w : w.event = Get(options.event))
                    ELSE bySource
        sorted   == sortByReceivedAtDesc(byEvent)
        page     == IF options.page = None \/ Get(options.page) = 0 THEN 1 ELSE Get(options.page)
        limit    == IF options.limit = None \/ Get(options.limit) = 0 THEN 10 ELSE Get(options.limit)
        startIndex == (page - 1) * limit
    IN  [webhooks |-> slice(sorted, startIndex, startIndex + limit), total |-> Len(sorted)]

\* mutant of getAll: the slice includes the element at its end index
getAllInclusiveEnd(ws, options) ==
    LET bySource == IF options.source # None /\ Get(options.source) # ""
                    THEN SelectSeq(ws, LAMBDA w : w.source = Get(options.source))
                    ELSE ws
        byEvent  == IF options.event # None /\ Get(options.event) # ""
                    THEN SelectSeq(bySource, LAMBDA w : w.event = Get(options.event))
                    ELSE bySource
        sorted   == sortByReceivedAtDesc(byEvent)
        page     == IF options.page = None \/ Get(options.page) = 0 THEN 1 ELSE Get(options.page)
        limit    == IF options.limit = None \/ Get(options.limit) = 0 THEN 10 ELSE Get(options.limit)
        startIndex == (page - 1) * limit
    IN  [webhooks |-> slice(sorted, startIndex, startIndex + limit + 1), total |-> Len(sorted)]

\* options: [page, limit : optional number; source, event : optional string];
\* `options?.x` and `options?.x || d` take 0 and "" for absent
getAll(ws, options) ==
    LET bySource == IF options.source # None /\ Get(options.source) # ""
                    THEN SelectSeq(ws, LAMBDA w : w.source = Get(options.source))
                    ELSE ws
        byEvent  == IF options.event # None /\ Get(options.event) # ""
                    THEN SelectSeq(bySource, LAMBDA w : w.event = Get(options.event))
                    ELSE bySource
        sorted   == sortByReceivedAtDesc(byEvent)
        page     == IF options.page = None \/ Get(options.page) = 0 THEN 1 ELSE Get(options.page)
        limit    == IF options.limit = None \/ Get(options.limit) = 0 THEN 10 ELSE Get(options.limit)
        startIndex == (page - 1) * limit
    IN  [webhooks |-> slice(sorted, startIndex, startIndex + limit), total |-> Len(sorted)]

(***************************************************************************)
(* WebhooksService.verifySignature                                         *)
(***************************************************************************)
HexLower == <<"0", "1", "2", "3", "4", "5", "6", "7", "8", "9", "a", "b", "c", "d", "e", "f">>
HexUpper == <<"0", "1", "2", "3", "4", "5", "6", "7", "8", "9", "A", "B", "C", "D", "E", "F">>

\* value of a hex digit, -1 for any other character
hexValue(c) ==
    IF c \in Range(HexLower) THEN IndexOf(HexLower, c) - 1
    ELSE IF c \in Range(HexUpper) THEN IndexOf(HexUpper, c) - 1
    ELSE -1

\* Buffer.from(str, 'hex'): decodes pairs of hex digits (either case) and stops
\* at the first pair that is not two hex digits; an odd last character is dropped
hexDecode(str) ==
    LET n == Len(str) \div 2
        valid(i) == hexValue(str[2 * i - 1]) >= 0 /\ hexValue(str[2 * i]) >= 0
        m == CHOOSE k \in 0..n : /\ \A i \in 1..k : valid(i)
                                /\ (k < n => ~valid(k + 1))
    IN  [i \in 1..m |-> 16 * hexValue(str[2 * i - 1]) + hexValue(str[2 * i])]

\* digest('hex'): two lower-case hex digits per byte
hexEncode(bytes) ==
    [i \in 1..(2 * Len(bytes)) |->
        IF i % 2 = 1 THEN HexLower[(bytes[(i + 1) \div 2] \div 16) + 1]
                     ELSE HexLower[(bytes[i \div 2] % 16) + 1]]

\* JSON.stringify(payload): the serialisation of the DTO's own fields, in order
stringify(dto) == <<dto.source, dto.event, dto.payload>>

\* createHmac('sha256', secret).update(message).digest(): the keyed hash is
\* abstracted to DigestBytes bytes that differ for different (secret, message)
createHmac(secret, message) ==
    LET k == 64 * IndexOf(Secrets, secret) + 16 * IndexOf(Sources, message[1])
             + 4 * IndexOf(Events, message[2]) + IndexOf(Payloads, message[3])
    IN  [i \in 1..DigestBytes |-> (k * (2 * i - 1) + 7 * i) % 256]

\* mutant of timingSafeEqual: a comparison that stops at the first differing byte
shortCircuitEqual(a, b) ==
    LET differing == {i \in 1..Len(a) : a[i] # b[i]}
    IN  [equal |-> differing = {},
         examined |-> IF differing = {} THEN Len(a)
                      ELSE CHOOSE i \in differing : \A j \in differing : i <= j]

\* crypto.timingSafeEqual on buffers of equal length: the outcome, and the
\* number of byte positions the comparison goes through (all of them, whatever
\* the buffers hold)
timingSafeEqual(a, b) ==
    [equal |-> a = b,
     examined |-> Len(a)]

\* mutant of verifySignatureTrace: the check of the configured secret is missing
verifySignatureNoSecretCheck(secret, payload, signature) ==
    IF signature = None \/ Get(signature) = <<>>
    THEN [returns |-> FALSE, throws |-> None, compared |-> None]
    ELSE LET expectedSignature == hexEncode(createHmac(secret, stringify(payload)))
             expectedBuffer == hexDecode(expectedSignature)
             providedBuffer == hexDecode(Get(signature))
         IN  IF Len(expectedBuffer) # Len(providedBuffer)
             THEN [returns |-> FALSE, throws |-> None, compared |-> None]
             ELSE [returns |-> timingSafeEqual(expectedBuffer, providedBuffer).equal,
                   throws |-> None,
                   compared |-> Some([expected |-> Len(expectedBuffer),
                                      provided |-> Len(providedBuffer),
                                      examined |-> timingSafeEqual(expectedBuffer,
                                                                   providedBuffer).examined])]

\* one run of verifySignature(payload, signature): what it returns, what it
\* throws (nothing: the two early returns cannot throw and the rest is inside
\* try/catch, which returns false), and the call of timingSafeEqual it made,
\* if it made one
verifySignatureTrace(secret, payload, signature) ==
    IF secret = ""
    THEN [returns |-> FALSE, throws |-> None, compared |-> None]
    ELSE IF signature = None \/ Get(signature) = <<>>
    THEN [returns |-> FALSE, throws |-> None, compared |-> None]
    ELSE LET expectedSignature == hexEncode(createHmac(secret, stringify(payload)))
             expectedBuffer == hexDecode(expectedSignature)
             providedBuffer == hexDecode(Get(signature))
         IN  IF Len(expectedBuffer) # Len(providedBuffer)
             THEN [returns |-> FALSE, throws |-> None, compared |-> None]
             ELSE [returns |-> timingSafeEqual(expectedBuffer, providedBuffer).equal,
                   throws |-> None,
                   compared |-> Some([expected |-> Len(expectedBuffer),
                                      provided |-> Len(providedBuffer),
                                      examined |-> timingSafeEqual(expectedBuffer,
                                                                   providedBuffer).examined])]

verifySignature(secret, payload, signature) ==
    verifySignatureTrace(secret, payload, signature).returns

(***************************************************************************)
(* WebhooksService                                                         *)
(***************************************************************************)
\* mutant of randomUUID: identifiers of version 1 in place of version 4
randomUUIDv1(n) ==
    "00000000-0000-1000-8000-0000000000" \o (IF n < 10 THEN "0" ELSE "") \o ToString(n)

\* randomUUID(): the n-th identifier handed out; every call returns a new one
randomUUID(n) ==
    "00000000-0000-4000-8000-0000000000" \o (IF n < 10 THEN "0" ELSE "") \o ToString(n)

\* the character class [0-9a-f] under the flag i
HexDigits == Range(HexLower) \cup Range(HexUpper)

\* /^[0-9a-f]{8}-[0-9a-f]{4}-4[0-9a-f]{3}-[89ab][0-9a-f]{3}-[0-9a-f]{12}$/i
isValidUuid(id) ==
    /\ Len(id) = 36
    /\ \A i \in 1..36 :
          LET c == SubSeq(id, i, i)
          IN  IF i \in {9, 14, 19, 24} THEN c = "-"
              ELSE IF i = 15 THEN c = "4"
              ELSE IF i = 20 THEN c \in {"8", "9", "a", "b", "A", "B"}
              ELSE c \in HexDigits

NotFoundException ==
    [status |-> 404,
     response |-> [message |-> "Webhook not found", error |-> "Not Found", statusCode |-> 404]]

\* mutant of create: a submission that does not verify is refused and not stored
createRejectsUnverified(ws, cap, secret, n, t, createWebhookDto, signature) ==
    LET id == randomUUID(n + 1)
        verified == verifySignature(secret, createWebhookDto, signature)
        webhook == [id |-> id,
                    source |-> createWebhookDto.source,
                    event |-> createWebhookDto.event,
                    payload |-> createWebhookDto.payload,
                    receivedAt |-> t,
                    signature |-> signature,
                    verified |-> verified]
    IN  IF verified
        THEN [webhooks |-> save(ws, cap, webhook),
              throws |-> None,
              returns |-> [id |-> webhook.id, message |-> "Webhook received"]]
        ELSE [webhooks |-> ws,
              throws |-> Some([status |-> 401, response |-> [message |-> "Invalid signature"]]),
              returns |-> [id |-> "", message |-> ""]]

\* mutant of create: the identifier is derived from the number of stored events
createIdFromCount(ws, cap, secret, n, t, createWebhookDto, signature) ==
    LET id == randomUUID(Len(ws) + 1)
        verified == verifySignature(secret, createWebhookDto, signature)
        webhook == [id |-> id,
                    source |-> createWebhookDto.source,
                    event |-> createWebhookDto.event,
                    payload |-> createWebhookDto.payload,
                    receivedAt |-> t,
                    signature |-> signature,
                    verified |-> verified]
    IN  [webhooks |-> save(ws, cap, webhook),
         throws |-> None,
         returns |-> [id |-> webhook.id, message |-> "Webhook received"]]

\* create(createWebhookDto, signature) at time t, as the (n+1)-th submission
create(ws, cap, secret, n, t, createWebhookDto, signature) ==
    LET id == randomUUID(n + 1)
        verified == verifySignature(secret, createWebhookDto, signature)
        webhook == [id |-> id,
                    source |-> createWebhookDto.source,
                    event |-> createWebhookDto.event,
                    payload |-> createWebhookDto.payload,
                    receivedAt |-> t,
                    signature |-> signature,
                    verified |-> verified]
    IN  [webhooks |-> save(ws, cap, webhook),
         throws |-> None,
         returns |-> [id |-> webhook.id, message |-> "Webhook received"]]

\* mutant of findAll: Math.floor in place of Math.ceil
findAllFloorPages(ws, query) ==
    LET page == Default(query.page, 1)
        limit == Default(query.limit, 10)
        got == getAll(ws, [page |-> Some(page), limit |-> Some(limit),
                           source |-> query.source, event |-> query.event])
        total == got.total
    IN  [webhooks |-> ws,
         throws |-> None,
         returns |-> [webhooks |-> got.webhooks,
                      count |-> Len(got.webhooks),
                      page |-> page,
                      limit |-> limit,
                      totalPages |-> total \div limit]]

findAll(ws, query) ==
    LET page == Default(query.page, 1)
        limit == Default(query.limit, 10)
        got == getAll(ws, [page |-> Some(page), limit |-> Some(limit),
                           source |-> query.source, event |-> query.event])
        total == got.total
    IN  [webhooks |-> ws,
         throws |-> None,
         returns |-> [webhooks |-> got.webhooks,
                      count |-> Len(got.webhooks),
                      page |-> page,
                      limit |-> limit,
                      totalPages |-> (total + limit - 1) \div limit]]

\* mutant of findOne: a lookup marks the event it returns as not verified
findOneResetsVerified(ws, id) ==
    IF ~isValidUuid(id) \/ getById(ws, id) = {}
    THEN [webhooks |-> ws, throws |-> Some(NotFoundException), returns |-> [message |-> ""]]
    ELSE [webhooks |-> [i \in 1..Len(ws) |->
                           IF ws[i].id = id THEN [ws[i] EXCEPT !.verified = FALSE] ELSE ws[i]],
          throws |-> None,
          returns |-> Get(getById(ws, id))]

findOne(ws, id) ==
    IF ~isValidUuid(id) \/ getById(ws, id) = {}
    THEN [webhooks |-> ws, throws |-> Some(NotFoundException), returns |-> [message |-> ""]]
    ELSE [webhooks |-> ws, throws |-> None, returns |-> Get(getById(ws, id))]

\* mutant of serviceDelete: a malformed identifier is reported as a bad request
serviceDeleteBadRequest(ws, id) ==
    IF ~isValidUuid(id)
    THEN [webhooks |-> ws,
          throws |-> Some([status |-> 400,
                           response |-> [message |-> "Invalid id", error |-> "Bad Request",
                                         statusCode |-> 400]]),
          returns |-> [message |-> ""]]
    ELSE IF ~delete(ws, id).deleted
    THEN [webhooks |-> ws, throws |-> Some(NotFoundException), returns |-> [message |-> ""]]
    ELSE [webhooks |-> delete(ws, id).webhooks, throws |-> None,
          returns |-> [message |-> "Webhook deleted successfully"]]

serviceDelete(ws, id) ==
    IF ~isValidUuid(id) \/ ~delete(ws, id).deleted
    THEN [webhooks |-> ws, throws |-> Some(NotFoundException), returns |-> [message |-> ""]]
    ELSE [webhooks |-> delete(ws, id).webhooks, throws |-> None,
          returns |-> [message |-> "Webhook deleted successfully"]]

(***************************************************************************)
(* RateLimitGuard                                                          *)
(***************************************************************************)
Put(f, k, v) == [x \in (DOMAIN f) \cup {k} |-> IF x = k THEN v ELSE f[x]]

\* mutant of ceilDiv: Math.floor in place of Math.ceil
floorDiv(x, d) == x \div d

\* Math.ceil(x / d) for d > 0
ceilDiv(x, d) == -((-x) \div d)

\* str.split(',')[0]: the part of str before its first comma
firstField(str) ==
    LET commas == {i \in 1..Len(str) : SubSeq(str, i, i) = ","}
    IN  IF commas = {} THEN str
        ELSE SubSeq(str, 1, (CHOOSE i \in commas : \A j \in commas : i <= j) - 1)

\* str.trim(): str without its leading and trailing white space
trim(str) ==
    LET solid == {i \in 1..Len(str) : SubSeq(str, i, i) \notin {" ", "\t"}}
    IN  IF solid = {} THEN ""
        ELSE SubSeq(str, CHOOSE i \in solid : \A j \in solid : i <= j,
                         CHOOSE i \in solid : \A j \in solid : i >= j)

\* mutant of getClientIp: the first address of the header is not trimmed
getClientIpUntrimmed(request) ==
    IF request.forwardedFor # None
    THEN firstField(Get(request.forwardedFor))
    ELSE IF request.ip # "" THEN request.ip
    ELSE IF request.remoteAddress # "" THEN request.remoteAddress
    ELSE "unknown"

\* request.headers['x-forwarded-for'] is the header's string, None when the
\* header is absent; request.ip and request.socket.remoteAddress are "" when
\* not available
getClientIp(request) ==
    IF request.forwardedFor # None
    THEN trim(firstField(Get(request.forwardedFor)))
    ELSE IF request.ip # "" THEN request.ip
    ELSE IF request.remoteAddress # "" THEN request.remoteAddress
    ELSE "unknown"

TooManyRequests(retryAfter) ==
    [status |-> 429,
     response |-> [message |-> "Too many requests", retryAfter |-> retryAfter]]

\* mutant of canActivate: a new window keeps counting from the expired record's count
canActivateKeepsCount(rs, max, win, clientIp, t) ==
    IF clientIp \notin DOMAIN rs
    THEN [requests |-> Put(rs, clientIp, [count |-> 1, resetTime |-> t + win]),
          throws |-> None]
    ELSE IF t > rs[clientIp].resetTime
    THEN [requests |-> Put(rs, clientIp, [count |-> rs[clientIp].count + 1,
                                          resetTime |-> t + win]),
          throws |-> None]
    ELSE IF rs[clientIp].count >= max
    THEN [requests |-> rs,
          throws |-> Some(TooManyRequests(ceilDiv(rs[clientIp].resetTime - t, 1000)))]
    ELSE [requests |-> [rs EXCEPT ![clientIp].count = @ + 1],
          throws |-> None]

\* mutant of canActivate: opening a window also removes the expired records
\* of the other identities
canActivateSweepsExpired(rs, max, win, clientIp, t) ==
    IF clientIp \notin DOMAIN rs \/ t > rs[clientIp].resetTime
    THEN LET kept == {x \in DOMAIN rs : x = clientIp \/ t <= rs[x].resetTime}
         IN  [requests |-> Put([x \in kept |-> rs[x]], clientIp,
                               [count |-> 1, resetTime |-> t + win]),
              throws |-> None]
    ELSE IF rs[clientIp].count >= max
    THEN [requests |-> rs,
          throws |-> Some(TooManyRequests(ceilDiv(rs[clientIp].resetTime - t, 1000)))]
    ELSE [requests |-> [rs EXCEPT ![clientIp].count = @ + 1],
          throws |-> None]

\* mutant of canActivate: an admitted request is counted for every identity
canActivateCountsEveryone(rs, max, win, clientIp, t) ==
    IF clientIp \notin DOMAIN rs \/ t > rs[clientIp].resetTime
    THEN [requests |-> Put(rs, clientIp, [count |-> 1, resetTime |-> t + win]),
          throws |-> None]
    ELSE IF rs[clientIp].count >= max
    THEN [requests |-> rs,
          throws |-> Some(TooManyRequests(ceilDiv(rs[clientIp].resetTime - t, 1000)))]
    ELSE [requests |-> [x \in DOMAIN rs |-> [rs[x] EXCEPT !.count = @ + 1]],
          throws |-> None]

\* mutant of canActivate: every admitted request restarts the window
canActivateSlidingWindow(rs, max, win, clientIp, t) ==
    IF clientIp \notin DOMAIN rs \/ t > rs[clientIp].resetTime
    THEN [requests |-> Put(rs, clientIp, [count |-> 1, resetTime |-> t + win]),
          throws |-> None]
    ELSE IF rs[clientIp].count >= max
    THEN [requests |-> rs,
          throws |-> Some(TooManyRequests(ceilDiv(rs[clientIp].resetTime - t, 1000)))]
    ELSE [requests |-> [rs EXCEPT ![clientIp] = [count |-> @.count + 1, resetTime |-> t + win]],
          throws |-> None]

\* mutant of canActivate: a rejected request restarts the window
canActivateRejectionRestartsWindow(rs, max, win, clientIp, t) ==
    IF clientIp \notin DOMAIN rs \/ t > rs[clientIp].resetTime
    THEN [requests |-> Put(rs, clientIp, [count |-> 1, resetTime |-> t + win]),
          throws |-> None]
    ELSE IF rs[clientIp].count >= max
    THEN [requests |-> [rs EXCEPT ![clientIp].resetTime = t + win],
          throws |-> Some(TooManyRequests(ceilDiv(rs[clientIp].resetTime - t, 1000)))]
    ELSE [requests |-> [rs EXCEPT ![clientIp].count = @ + 1],
          throws |-> None]

\* canActivate for a request of clientIp when Date.now() = t
canActivate(rs, max, win, clientIp, t) ==
    IF clientIp \notin DOMAIN rs \/ t > rs[clientIp].resetTime
    THEN [requests |-> Put(rs, clientIp, [count |-> 1, resetTime |-> t + win]),
          throws |-> None]
    ELSE IF rs[clientIp].count >= max
    THEN [requests |-> rs,
          throws |-> Some(TooManyRequests(ceilDiv(rs[clientIp].resetTime - t, 1000)))]
    ELSE [requests |-> [rs EXCEPT ![clientIp].count = @ + 1],
          throws |-> None]

(***************************************************************************)
(* HttpExceptionFilter                                                     *)
(***************************************************************************)
\* catch(exception, host): the exception's own response object under the
\* request's metadata (the timestamp of the error response is left out)
catch(exception, request) ==
    [status |-> exception.status,
     body |-> exception.response @@ [statusCode |-> exception.status,
                                     path |-> request.path,
                                     method |-> request.method]]

(***************************************************************************)
(* Initial state shared by the specifications: the constructors            *)
(***************************************************************************)
NoDto == [source |-> "", event |-> "", payload |-> ""]
NoQuery == [page |-> None, limit |-> None, source |-> None, event |-> None]

NoRequest ==
    [method |-> "", path |-> "", forwardedFor |-> None, ip |-> "", remoteAddress |-> "",
     id |-> "", body |-> NoDto, signature |-> None, query |-> NoQuery]
NoResponse == [status |-> 0]

\* WebhooksStorage constructor: parseInt(process.env.MAX_WEBHOOKS_STORAGE || '10000', 10)
StorageInit ==
    /\ webhooks = <<>>
    /\ maxStorageSize \in 0..MaxCapacity
    /\ fifoLog = [clean |-> TRUE, ids |-> <<>>]

IdleInit ==
    /\ now = 0
    /\ issued = 0
    /\ pc = "idle"
    /\ req = NoRequest
    /\ resp = NoResponse

(***************************************************************************)
(* StoreSpec: the storage class called directly                            *)
(***************************************************************************)
StoreIds == {"", "a", "b", "c"}

TestWebhooks ==
    [id : StoreIds, source : Range(Sources), event : {"push"}, payload : {"p"},
     receivedAt : {0}, signature : {None}, verified : {FALSE}]

\* history of the saves since the last clear; it stops being a clean FIFO
\* history at the first delete or at the first save of an id saved before
LogSave(log, id) ==
    IF log.clean /\ id \notin Range(log.ids)
    THEN [log EXCEPT !.ids = Append(@, id)]
    ELSE [clean |-> FALSE, ids |-> <<>>]

StoreFrame == UNCHANGED <<maxStorageSize, requests, maxRequests, windowMs, webhookSecret,
                          now, issued, pc, req, admitted, rejection>>

\* storage.save(w); the response also records whether the call just before
\* was a delete that removed an event, and how many events the store held
StorageSave(w) ==
    /\ webhooks' = save(webhooks, maxStorageSize, w)
    /\ resp' = [op |-> "save", value |-> w,
                afterDelete |-> "op" \in DOMAIN resp /\ resp.op = "delete" /\ resp.value,
                sizeBefore |-> count(webhooks)]
    /\ fifoLog' = LogSave(fifoLog, w.id)
    /\ StoreFrame

\* the last storage call was delete(id)
DeletedLast(id) == "op" \in DOMAIN resp /\ resp.op = "delete" /\ resp.id = id

\* storage.delete(id); the response also records what the call just before
\* returned, when that call was delete(id) too
StorageDelete(id) ==
    /\ webhooks' = delete(webhooks, id).webhooks
    /\ resp' = [op |-> "delete", id |-> id, value |-> delete(webhooks, id).deleted,
                previous |-> IF DeletedLast(id) THEN Some(resp.value) ELSE None]
    /\ fifoLog' = [clean |-> FALSE, ids |-> <<>>]
    /\ StoreFrame

StorageClear ==
    /\ webhooks' = clear(webhooks)
    /\ resp' = [op |-> "clear"]
    /\ fifoLog' = [clean |-> TRUE, ids |-> <<>>]
    /\ StoreFrame

InitStore ==
    /\ StorageInit
    /\ IdleInit
    /\ requests = <<>>
    /\ maxRequests = 0
    /\ windowMs = 0
    /\ webhookSecret = ""
    /\ admitted = <<>>
    /\ rejection = <<>>

NextStore ==
    \/ \E w \in TestWebhooks : StorageSave(w)
    \/ \E id \in StoreIds : StorageDelete(id)
    \/ StorageClear

StoreSpec == InitStore /\ [][NextStore]_vars

(***************************************************************************)
(* Inputs                                                                  *)
(***************************************************************************)
Dtos == [source : Range(Sources), event : Range(Events), payload : Range(Payloads)]

\* the tag a sender holding "s3cret" computes for dto
SenderTag(dto) == hexEncode(createHmac("s3cret", stringify(dto)))

\* x-webhook-signature headers sent with dto: none, the sender's tag, another tag
Signatures(dto) == {None, Some(SenderTag(dto)), Some(<<"0", "0", "0", "0">>)}

\* who sends: through a proxy chain naming "a" first, or directly from "b"
Proxied == [forwardedFor |-> Some("a, proxy"), ip |-> "b", remoteAddress |-> "b"]
Direct == [forwardedFor |-> None, ip |-> "b", remoteAddress |-> "b"]

IdParams == {randomUUID(1), "not-a-uuid"}

Request(method, path, client, id, body, signature, query) ==
    [method |-> method, path |-> path,
     forwardedFor |-> client.forwardedFor, ip |-> client.ip,
     remoteAddress |-> client.remoteAddress,
     id |-> id, body |-> body, signature |-> signature, query |-> query]

Config == <<maxStorageSize, maxRequests, windowMs, webhookSecret>>

Horizon == 500 * MaxTicks

\* time passes, d ms at a time
Tick(d) ==
    /\ now + d <= Horizon
    /\ now' = now + d
    /\ UNCHANGED <<webhooks, requests, issued, pc, req, resp, fifoLog, admitted, rejection>>
    /\ UNCHANGED Config

(***************************************************************************)
(* RateSpec: the guard called directly                                     *)
(***************************************************************************)
RateClients == {Proxied, Direct}

\* history of an identity after an admitted request at time t: the times of the
\* admitted requests since its current window was opened, how many windows
\* it has opened so far, and the time of the request that opened the current
\* one (a request that found no record, or a record whose resetTime had passed)
Admit(log, old, rs, win, ip, t) ==
    LET before == IF ip \in DOMAIN log THEN log[ip]
                  ELSE [times |-> <<>>, windows |-> 0, opened |-> t]
        opens == ip \notin DOMAIN old \/ old[ip].resetTime # rs[ip].resetTime
    IN  Put(log, ip,
            [times |-> SelectSeq(before.times \o <<t>>,
                                 LAMBDA u : u >= rs[ip].resetTime - win),
             windows |-> IF opens THEN before.windows + 1 ELSE before.windows,
             opened |-> IF ip \notin DOMAIN old \/ t > old[ip].resetTime
                        THEN t ELSE before.opened])

\* one call of canActivate(context) for a request of client, at Date.now() = now;
\* the history of an admitted identity also notes whether its last request
\* before this one was rejected
GuardCall(client) ==
    /\ pc = "idle"
    /\ req' = Request("GET", "/webhooks", client, "", NoDto, None, NoQuery)
    /\ LET clientIp == getClientIp(req')
           out == canActivate(requests, maxRequests, windowMs, clientIp, now)
           retried == clientIp \in DOMAIN rejection /\ rejection[clientIp] # None
       IN  /\ requests' = out.requests
           /\ IF out.throws = None
              THEN /\ resp' = [status |-> 200]
                   /\ admitted' = [Admit(admitted, requests, out.requests, windowMs, clientIp, now)
                                      EXCEPT ![clientIp] = [afterRejection |-> retried] @@ @]
                   /\ rejection' = Put(rejection, clientIp, None)
              ELSE /\ resp' = catch(Get(out.throws), req')
                   /\ admitted' = admitted
                   /\ rejection' = Put(rejection, clientIp,
                          Some([at |-> now, retryAfter |-> Get(out.throws).response.retryAfter]))
    /\ UNCHANGED <<webhooks, now, issued, pc, fifoLog>>
    /\ UNCHANGED Config

InitRate ==
    /\ webhooks = <<>>
    /\ maxStorageSize = 0
    /\ fifoLog = [clean |-> TRUE, ids |-> <<>>]
    /\ IdleInit
    /\ requests = <<>>
    /\ maxRequests \in 0..MaxRate
    /\ windowMs \in WindowDurations
    /\ webhookSecret = ""
    /\ admitted = <<>>
    /\ rejection = <<>>

NextRate ==
    \/ \E d \in TickSteps : Tick(d)
    \/ \E c \in RateClients : GuardCall(c)

RateSpec == InitRate /\ [][NextRate]_vars

\* RateLiveSpec: the guard called by two clients without a proxy, while time
\* keeps advancing (up to the horizon) and each client keeps sending requests
SocketOnly == [forwardedFor |-> None, ip |-> "", remoteAddress |-> "c"]

LiveClients == {Direct, SocketOnly}

NextRateLive ==
    \/ \E d \in TickSteps : Tick(d)
    \/ \E c \in LiveClients : GuardCall(c)

RateLiveSpec ==
    /\ InitRate
    /\ [][NextRateLive]_vars
    /\ WF_vars(\E d \in TickSteps : Tick(d))
    /\ \A c \in LiveClients : WF_vars(GuardCall(c))

(***************************************************************************)
(* IdentitySpec: the guard called for requests of every origin             *)
(***************************************************************************)
\* x-forwarded-for headers: a chain, a chain with white space around its
\* first address, a single address, an empty header, an empty first field
ForwardedHeaders == {"a, proxy", "  a  ,proxy", "a", "", " , b"}

\* who sends: behind a proxy that sets the header; directly, with request.ip;
\* with the socket's address only; with no address at all
IdentityClients ==
    {[forwardedFor |-> Some(h), ip |-> "b", remoteAddress |-> "b"] : h \in ForwardedHeaders}
    \cup {Direct,
          [forwardedFor |-> None, ip |-> "", remoteAddress |-> "c"],
          [forwardedFor |-> None, ip |-> "", remoteAddress |-> ""]}

NextIdentity == \E c \in IdentityClients : GuardCall(c)

IdentitySpec == InitRate /\ [][NextIdentity]_vars

(***************************************************************************)
(* ServiceSpec: the service called directly                                *)
(***************************************************************************)
CoarseSteps == {1000}

ServiceFrame == UNCHANGED <<requests, now, pc, fifoLog, admitted, rejection>>

ServiceCreate(dto, sig) ==
    /\ issued < MaxUuids
    /\ req' = Request("POST", "/webhooks", Direct, "", dto, sig, NoQuery)
    /\ resp' = create(webhooks, maxStorageSize, webhookSecret, issued, now, dto, sig)
    /\ webhooks' = resp'.webhooks
    /\ issued' = issued + 1
    /\ ServiceFrame /\ UNCHANGED Config

ServiceFindAll(query) ==
    /\ req' = Request("GET", "/webhooks", Direct, "", NoDto, None, query)
    /\ resp' = findAll(webhooks, query)
    /\ webhooks' = resp'.webhooks
    /\ UNCHANGED issued
    /\ ServiceFrame /\ UNCHANGED Config

ServiceFindOne(id) ==
    /\ req' = Request("GET", "/webhooks/:id", Direct, id, NoDto, None, NoQuery)
    /\ resp' = findOne(webhooks, id)
    /\ webhooks' = resp'.webhooks
    /\ UNCHANGED issued
    /\ ServiceFrame /\ UNCHANGED Config

ServiceDelete(id) ==
    /\ req' = Request("DELETE", "/webhooks/:id", Direct, id, NoDto, None, NoQuery)
    /\ resp' = serviceDelete(webhooks, id)
    /\ webhooks' = resp'.webhooks
    /\ UNCHANGED issued
    /\ ServiceFrame /\ UNCHANGED Config

InitService ==
    /\ StorageInit
    /\ IdleInit
    /\ requests = <<>>
    /\ maxRequests = 0
    /\ windowMs = 0
    /\ webhookSecret \in Range(Secrets)
    /\ admitted = <<>>
    /\ rejection = <<>>

NextService ==
    \/ \E d \in CoarseSteps : Tick(d)
    \/ \E dto \in Dtos : \E sig \in Signatures(dto) : ServiceCreate(dto, sig)
    \/ ServiceFindAll(NoQuery)
    \/ \E id \in IdParams : ServiceFindOne(id)
    \/ \E id \in IdParams : ServiceDelete(id)

ServiceSpec == InitService /\ [][NextService]_vars

(***************************************************************************)
(* VerifySpec: verifySignature applied to payloads and tags                *)
(***************************************************************************)
\* the character code of a hex digit
Ord(c) ==
    IF c \in Range(HexUpper) /\ hexValue(c) >= 10 THEN 55 + hexValue(c)
    ELSE IF hexValue(c) >= 10 THEN 87 + hexValue(c)
    ELSE 48 + hexValue(c)

\* the character of a code; a character that is not a hex digit is written
\* "\x" followed by its code
Chr(n) ==
    IF n \in 48..57 THEN HexLower[n - 47]
    ELSE IF n \in 97..102 THEN HexLower[n - 86]
    ELSE IF n \in 65..70 THEN HexUpper[n - 54]
    ELSE "\\x" \o ToString(n)

\* the character c with bit b of its code inverted
flipBit(c, b) ==
    LET n == Ord(c)
    IN  Chr(IF (n \div (2 ^ b)) % 2 = 1 THEN n - 2 ^ b ELSE n + 2 ^ b)

\* the strings obtained from the string tag by inverting one bit of one character
BitFlips(tag) ==
    {[tag EXCEPT ![i] = flipBit(tag[i], b)] : i \in 1..Len(tag), b \in 0..7}

\* the payloads obtained from dto by inverting one bit of its content:
\* "p" and "q" are one bit apart
ContentFlips(dto) == {d \in Dtos : d # dto /\ d.source = dto.source /\ d.event = dto.event}

\* digest('hex') of the HMAC of dto under secret
hexHmac(secret, dto) == hexEncode(createHmac(secret, stringify(dto)))

toUpperCase(tag) == [i \in 1..Len(tag) |-> HexUpper[hexValue(tag[i]) + 1]]

\* x-webhook-signature headers sent with dto: none, empty, the tag under each
\* secret, the tag of a payload one bit away, every one-bit change of the
\* sender's tag, and the sender's tag in upper case, cut short, and followed
\* by one or two more characters
VerifyTags(dto) ==
    {None, Some(<<>>)}
    \cup {Some(hexHmac(s, dto)) : s \in Range(Secrets)}
    \cup {Some(hexHmac("s3cret", d)) : d \in ContentFlips(dto)}
    \cup {Some(t) : t \in BitFlips(SenderTag(dto))}
    \cup {Some(toUpperCase(SenderTag(dto))),
          Some(SubSeq(SenderTag(dto), 1, Len(SenderTag(dto)) - 2)),
          Some(SenderTag(dto) \o <<"0">>),
          Some(SenderTag(dto) \o <<"z", "z">>),
          Some(SenderTag(dto) \o <<"0", "0">>)}

\* verifySignature(dto, sig), as create calls it
Verify(dto, sig) ==
    /\ req' = Request("POST", "/webhooks", Direct, "", dto, sig, NoQuery)
    /\ resp' = verifySignatureTrace(webhookSecret, dto, sig)
    /\ UNCHANGED <<webhooks, issued>>
    /\ ServiceFrame /\ UNCHANGED Config

InitVerify == InitService

NextVerify == \E dto \in Dtos : \E sig \in VerifyTags(dto) : Verify(dto, sig)

VerifySpec == InitVerify /\ [][NextVerify]_vars

(***************************************************************************)
(* QuerySpec: one list query, getAll or findAll, on a populated store      *)
(***************************************************************************)
MaxEvents == 3          \* events in the stores that are queried

QuerySources == {"stripe", "Stripe"}
QueryEvents == {"push", "PUSH"}
QueryTimes == {0, 1000}

\* the i-th event saved, with the fields that getAll reads drawn from attrs
QueryEvent(i, attrs) ==
    [id |-> randomUUID(i), source |-> attrs.source, event |-> attrs.event, payload |-> "p",
     receivedAt |-> attrs.receivedAt, signature |-> None, verified |-> FALSE]

\* the stores left by up to MaxEvents saves of new ids
SmallStores ==
    UNION {{[i \in 1..n |-> QueryEvent(i, f[i])] :
               f \in [1..n -> [source : QuerySources, event : QueryEvents,
                               receivedAt : QueryTimes]]} : n \in 0..MaxEvents}

\* the stores of the pagination tests: 15 and 25 events received in turn
PagedStores ==
    {[i \in 1..n |-> QueryEvent(i, [source |-> "stripe", event |-> "push", receivedAt |-> i])] :
        n \in {15, 25}}

GetAllOptions ==
    [page : {None, Some(1), Some(2), Some(3)},
     limit : {None, Some(1), Some(2)},
     source : {None, Some(""), Some("stripe")},
     event : {None, Some(""), Some("push")}]

FindAllQueries ==
    [page : {None, Some(1), Some(2), Some(3)},
     limit : {None, Some(1), Some(2), Some(10)},
     source : {None, Some("stripe")},
     event : {None}]

\* storage.getAll(options), called directly
StorageGetAll(options) ==
    /\ resp' = [op |-> "getAll", options |-> options, value |-> getAll(webhooks, options)]
    /\ UNCHANGED webhooks
    /\ StoreFrame
    /\ UNCHANGED fifoLog

\* the default capacity (10000) holds every store drawn here without eviction
InitQuery ==
    /\ webhooks \in SmallStores \cup PagedStores
    /\ maxStorageSize = 10000
    /\ fifoLog = [clean |-> FALSE, ids |-> <<>>]
    /\ IdleInit
    /\ requests = <<>>
    /\ maxRequests = 0
    /\ windowMs = 0
    /\ webhookSecret = ""
    /\ admitted = <<>>
    /\ rejection = <<>>

\* a query leaves the store as it is: each behaviour makes one
NextQuery ==
    /\ resp = NoResponse
    /\ \/ \E options \in GetAllOptions : StorageGetAll(options)
       \/ \E query \in FindAllQueries : ServiceFindAll(query)

QuerySpec == InitQuery /\ [][NextQuery]_vars

(***************************************************************************)
(* Spec: HTTP requests through the global guard and the controller         *)
(***************************************************************************)
TheDto == [source |-> "stripe", event |-> "push", payload |-> "p"]

HttpRequests ==
    {Request("POST", "/webhooks", c, "", TheDto, sig, NoQuery) :
        c \in {Direct, Proxied}, sig \in {None, Some(SenderTag(TheDto))}}
    \cup {Request("GET", "/webhooks", c, "", NoDto, None, NoQuery) : c \in {Direct, Proxied}}
    \cup {Request("GET", "/webhooks/:id", Direct, id, NoDto, None, NoQuery) : id \in IdParams}
    \cup {Request("DELETE", "/webhooks/:id", Direct, id, NoDto, None, NoQuery) : id \in IdParams}

Init ==
    /\ StorageInit
    /\ IdleInit
    /\ requests = <<>>
    /\ maxRequests \in 0..MaxRate
    /\ windowMs = 1000
    /\ webhookSecret = "s3cret"
    /\ admitted = <<>>
    /\ rejection = <<>>

\* a request arrives; a submission needs an identifier the model still has
Receive(r) ==
    /\ pc = "idle"
    /\ r.method = "POST" => issued < MaxUuids
    /\ pc' = "guard"
    /\ req' = r
    /\ resp' = NoResponse
    /\ UNCHANGED <<webhooks, requests, now, issued, fifoLog, admitted, rejection>>
    /\ UNCHANGED Config

\* mutant of Guard: the handler is called although the guard threw
GuardThenHandlerAnyway ==
    /\ pc = "guard"
    /\ LET out == canActivate(requests, maxRequests, windowMs, getClientIp(req), now)
       IN  /\ requests' = out.requests
           /\ pc' = "handler"
           /\ resp' = IF out.throws = None THEN resp ELSE catch(Get(out.throws), req)
    /\ UNCHANGED <<webhooks, now, issued, req, fifoLog, admitted, rejection>>
    /\ UNCHANGED Config

\* mutant of Guard: the guard is bound to the submission route only
GuardOnSubmissionsOnly ==
    /\ pc = "guard"
    /\ LET out == canActivate(requests, maxRequests, windowMs, getClientIp(req), now)
       IN  IF req.method # "POST"
           THEN requests' = requests /\ pc' = "handler" /\ resp' = resp
           ELSE /\ requests' = out.requests
                /\ IF out.throws = None
                   THEN pc' = "handler" /\ resp' = resp
                   ELSE pc' = "idle" /\ resp' = catch(Get(out.throws), req)
    /\ UNCHANGED <<webhooks, now, issued, req, fifoLog, admitted, rejection>>
    /\ UNCHANGED Config

\* APP_GUARD: RateLimitGuard.canActivate runs before the handler of every route;
\* the exception it throws goes to the exception filter and the handler is not called
Guard ==
    /\ pc = "guard"
    /\ LET out == canActivate(requests, maxRequests, windowMs, getClientIp(req), now)
       IN  /\ requests' = out.requests
           /\ IF out.throws = None
              THEN pc' = "handler" /\ resp' = resp
              ELSE pc' = "idle" /\ resp' = catch(Get(out.throws), req)
    /\ UNCHANGED <<webhooks, now, issued, req, fifoLog, admitted, rejection>>
    /\ UNCHANGED Config

\* what the controller sends for the outcome of a service call
Reply(out, status, request) ==
    IF out.throws = None
    THEN [status |-> status, body |-> out.returns]
    ELSE catch(Get(out.throws), request)

HandlerFrame == UNCHANGED <<requests, now, req, fifoLog, admitted, rejection>>

\* POST /webhooks -> WebhooksController.create -> WebhooksService.create
Create ==
    /\ pc = "handler"
    /\ req.method = "POST"
    /\ LET out == create(webhooks, maxStorageSize, webhookSecret, issued, now,
                         req.body, req.signature)
       IN  /\ webhooks' = out.webhooks
           /\ resp' = Reply(out, 201, req)
    /\ issued' = issued + 1
    /\ pc' = "idle"
    /\ HandlerFrame /\ UNCHANGED Config

\* GET /webhooks -> WebhooksController.findAll
FindAll ==
    /\ pc = "handler"
    /\ req.method = "GET" /\ req.path = "/webhooks"
    /\ LET out == findAll(webhooks, req.query)
       IN  /\ webhooks' = out.webhooks
           /\ resp' = Reply(out, 200, req)
    /\ pc' = "idle"
    /\ UNCHANGED issued
    /\ HandlerFrame /\ UNCHANGED Config

\* GET /webhooks/:id -> WebhooksController.findOne
FindOne ==
    /\ pc = "handler"
    /\ req.method = "GET" /\ req.path = "/webhooks/:id"
    /\ LET out == findOne(webhooks, req.id)
       IN  /\ webhooks' = out.webhooks
           /\ resp' = Reply(out, 200, req)
    /\ pc' = "idle"
    /\ UNCHANGED issued
    /\ HandlerFrame /\ UNCHANGED Config

\* DELETE /webhooks/:id -> WebhooksController.delete
Delete ==
    /\ pc = "handler"
    /\ req.method = "DELETE"
    /\ LET out == serviceDelete(webhooks, req.id)
       IN  /\ webhooks' = out.webhooks
           /\ resp' = Reply(out, 200, req)
    /\ pc' = "idle"
    /\ UNCHANGED issued
    /\ HandlerFrame /\ UNCHANGED Config

Next ==
    \/ \E d \in CoarseSteps : Tick(d)
    \/ \E r \in HttpRequests : Receive(r)
    \/ Guard
    \/ Create
    \/ FindAll
    \/ FindOne
    \/ Delete

Spec == Init /\ [][Next]_vars

(***************************************************************************)
(* ConcRateSpec: several requests in flight at the guard.  canActivate is  *)
(* synchronous (no await), so the event loop runs each decision to         *)
(* completion; requests that have arrived are decided in any order.        *)
(* Here pc, req and resp hold one value per request in flight; once a      *)
(* request is decided its slot is free again, and resp[0] is the response  *)
(* sent last.                                                              *)
(***************************************************************************)
MaxInFlight == 2        \* requests in flight at the same time

InFlight == 1..MaxInFlight

\* a request of client arrives as the p-th request in flight; its pending
\* response notes the record of its identity as it is at its arrival
Arrive(p, client) ==
    /\ pc[p] = "idle"
    /\ pc' = [pc EXCEPT ![p] = "guard"]
    /\ req' = [req EXCEPT ![p] = Request("GET", "/webhooks", client, "", NoDto, None, NoQuery)]
    /\ resp' = [resp EXCEPT ![p] =
                    [status |-> 0,
                     seen |-> IF getClientIp(req'[p]) \in DOMAIN requests
                              THEN Some(requests[getClientIp(req'[p])]) ELSE None]]
    /\ UNCHANGED <<webhooks, requests, now, issued, fifoLog, admitted, rejection>>
    /\ UNCHANGED Config

\* mutant of Decide: the decision is taken on the record read when the
\* request arrived, and written back now
DecideOnStaleRead(p) ==
    /\ pc[p] = "guard"
    /\ LET clientIp == getClientIp(req[p])
           seen == resp[p].seen
           view == [x \in (DOMAIN requests \ {clientIp})
                             \cup (IF seen = None THEN {} ELSE {clientIp}) |->
                       IF x = clientIp THEN Get(seen) ELSE requests[x]]
           out == canActivate(view, maxRequests, windowMs, clientIp, now)
       IN  /\ requests' = out.requests
           /\ IF out.throws = None
              THEN /\ resp' = [resp EXCEPT ![p] = NoResponse,
                                               ![0] = [status |-> 200, ip |-> clientIp,
                                                       seen |-> resp[p].seen]]
                   /\ admitted' = Admit(admitted, requests, out.requests, windowMs, clientIp, now)
              ELSE /\ resp' = [resp EXCEPT ![p] = NoResponse,
                                               ![0] = catch(Get(out.throws), req[p])
                                                         @@ [ip |-> clientIp, seen |-> resp[p].seen]]
                   /\ admitted' = admitted
    /\ pc' = [pc EXCEPT ![p] = "idle"]
    /\ req' = [req EXCEPT ![p] = NoRequest]
    /\ UNCHANGED <<webhooks, now, issued, fifoLog, rejection>>
    /\ UNCHANGED Config

\* canActivate(context) runs for the p-th request in flight, at Date.now() = now
Decide(p) ==
    /\ pc[p] = "guard"
    /\ LET clientIp == getClientIp(req[p])
           out == canActivate(requests, maxRequests, windowMs, clientIp, now)
       IN  /\ requests' = out.requests
           /\ IF out.throws = None
              THEN /\ resp' = [resp EXCEPT ![p] = NoResponse,
                                               ![0] = [status |-> 200, ip |-> clientIp,
                                                       seen |-> resp[p].seen]]
                   /\ admitted' = Admit(admitted, requests, out.requests, windowMs, clientIp, now)
              ELSE /\ resp' = [resp EXCEPT ![p] = NoResponse,
                                               ![0] = catch(Get(out.throws), req[p])
                                                         @@ [ip |-> clientIp, seen |-> resp[p].seen]]
                   /\ admitted' = admitted
    /\ pc' = [pc EXCEPT ![p] = "idle"]
    /\ req' = [req EXCEPT ![p] = NoRequest]
    /\ UNCHANGED <<webhooks, now, issued, fifoLog, rejection>>
    /\ UNCHANGED Config

InitConcRate ==
    /\ webhooks = <<>>
    /\ maxStorageSize = 0
    /\ fifoLog = [clean |-> TRUE, ids |-> <<>>]
    /\ now = 0
    /\ issued = 0
    /\ pc = [p \in InFlight |-> "idle"]
    /\ req = [p \in InFlight |-> NoRequest]
    /\ resp = [p \in {0} \cup InFlight |-> NoResponse]
    /\ requests = <<>>
    /\ maxRequests \in 0..MaxRate
    /\ windowMs = 1000
    /\ webhookSecret = ""
    /\ admitted = <<>>
    /\ rejection = <<>>

NextConcRate ==
    \/ \E d \in CoarseSteps : Tick(d)
    \/ \E p \in InFlight : \E c \in RateClients : Arrive(p, c)
    \/ \E p \in InFlight : Decide(p)

ConcRateSpec == InitConcRate /\ [][NextConcRate]_vars

(***************************************************************************)
(* ConcStoreSpec: several callers of save in flight.  save is synchronous, *)
(* so each call begins and ends in one step of the event loop; pending     *)
(* calls run in any order, whatever the receivedAt of their events.        *)
(* req[p] is the event the p-th pending call will save, resp[0] what the   *)
(* last call returned, fifoLog.saved the events in the order of the calls. *)
(***************************************************************************)
\* a caller prepares the next new event, stamped t, and is about to call save
Submit(p, t) ==
    /\ pc[p] = "idle"
    /\ issued < MaxEvents
    /\ issued' = issued + 1
    /\ pc' = [pc EXCEPT ![p] = "save"]
    /\ req' = [req EXCEPT ![p] = QueryEvent(issued + 1, [source |-> "stripe", event |-> "push",
                                                         receivedAt |-> t])]
    /\ UNCHANGED <<webhooks, requests, now, resp, fifoLog, admitted, rejection>>
    /\ UNCHANGED Config

\* storage.save(req[p]) runs
SaveCall(p) ==
    /\ pc[p] = "save"
    /\ webhooks' = save(webhooks, maxStorageSize, req[p])
    /\ resp' = [resp EXCEPT ![0] = [op |-> "save", value |-> req[p]]]
    /\ fifoLog' = [LogSave(fifoLog, req[p].id) EXCEPT !.saved = Append(@, req[p])]
    /\ pc' = [pc EXCEPT ![p] = "idle"]
    /\ req' = [req EXCEPT ![p] = NoRequest]
    /\ UNCHANGED <<requests, now, issued, admitted, rejection>>
    /\ UNCHANGED Config

InitConcStore ==
    /\ webhooks = <<>>
    /\ maxStorageSize \in 0..MaxCapacity
    /\ fifoLog = [clean |-> TRUE, ids |-> <<>>, saved |-> <<>>]
    /\ now = 0
    /\ issued = 0
    /\ pc = [p \in InFlight |-> "idle"]
    /\ req = [p \in InFlight |-> NoRequest]
    /\ resp = [p \in {0} \cup InFlight |-> NoResponse]
    /\ requests = <<>>
    /\ maxRequests = 0
    /\ windowMs = 0
    /\ webhookSecret = ""
    /\ admitted = <<>>
    /\ rejection = <<>>

NextConcStore ==
    \/ \E p \in InFlight : \E t \in QueryTimes : Submit(p, t)
    \/ \E p \in InFlight : SaveCall(p)

ConcStoreSpec == InitConcStore /\ [][NextConcStore]_vars

(***************************************************************************)
(* Claims about the store                                                  *)
(***************************************************************************)

\* C1: capacity bound: for every configured capacity, after every save,
\* delete or clear the store holds at most capacity events.
CapacityBound == count(webhooks) <= maxStorageSize

LastN(s, n) == SubSeq(s, Len(s) - n + 1, Len(s))

FifoEvictionTruthyIds ==
    (fifoLog.clean /\ maxStorageSize >= 1 /\ Len(fifoLog.ids) > maxStorageSize
       /\ "" \notin Range(fifoLog.ids))
        => Keys(webhooks) = LastN(fifoLog.ids, maxStorageSize)

(***************************************************************************)
(* Claims about the rate limiter (RateSpec)                                *)
(***************************************************************************)
Tracked(ip) == ip \in DOMAIN requests

InWindow(ip, t) == t <= requests[ip].resetTime

\* requests of ip admitted from the opening of its current window to windowResetAt
AdmittedInWindow(ip) ==
    Cardinality({i \in 1..Len(admitted[ip].times) :
                    /\ admitted[ip].times[i] >= requests[ip].resetTime - windowMs
                    /\ admitted[ip].times[i] <= requests[ip].resetTime})

\* C3: rate bound: for every maxRequests >= 0 and every window duration, the
\* requests admitted for an identity between the request that opens a window
\* and that window's windowResetAt (inclusive) number at most maxRequests.
RateBound == \A ip \in DOMAIN requests : AdmittedInWindow(ip) <= maxRequests

\* the rate bound for maxRequests >= 1
RateBoundPositive ==
    maxRequests >= 1 => \A ip \in DOMAIN requests : AdmittedInWindow(ip) <= maxRequests

\* the step is a call of the guard for identity ip
GuardStep(ip) == now' = now /\ getClientIp(req') = ip

Admitted(r) == r.status = 200
Rejected(r) == r.status = 429

\* what a call of the guard for ip does in the two admitting cases
WindowResetStep(ip) ==
    /\ (~Tracked(ip) \/ ~InWindow(ip, now))
         => /\ Admitted(resp')
            /\ ip \in DOMAIN requests'
            /\ requests'[ip] = [count |-> 1, resetTime |-> now + windowMs]
    /\ (Tracked(ip) /\ InWindow(ip, now) /\ requests[ip].count < maxRequests)
         => /\ Admitted(resp')
            /\ ip \in DOMAIN requests'
            /\ requests'[ip] = [count |-> requests[ip].count + 1,
                                resetTime |-> requests[ip].resetTime]

\* C4: window reset: a request of an identity with no record, or with
\* now > windowResetAt, is admitted and leaves the record (count = 1,
\* windowResetAt = now + windowDurationMs); a request with now <= windowResetAt
\* and count < maxRequests is admitted, adds 1 to count and keeps windowResetAt.
WindowReset == [][\A ip \in {getClientIp(c) : c \in RateClients} :
                    GuardStep(ip) => WindowResetStep(ip)]_vars

\* an identity opened a second window after its first one expired with count 2,
\* and its count is 1 again
WindowResetWitness ==
    \E ip \in DOMAIN requests :
        /\ admitted[ip].windows >= 2
        /\ requests[ip] = [count |-> 1, resetTime |-> now + windowMs]
        /\ getClientIp(req) = ip /\ Admitted(resp)
        /\ \E other \in DOMAIN requests : requests[other].count = 2

\* the least r with r * 1000 >= ms
CeilSeconds(ms, r) == r * 1000 >= ms /\ (r - 1) * 1000 < ms

\* what a call of the guard for ip does when ip is at its limit inside its window
RejectionStep(ip) ==
    (Tracked(ip) /\ InWindow(ip, now) /\ requests[ip].count >= maxRequests)
        => /\ Rejected(resp')
           /\ resp'.body.statusCode = 429
           /\ resp'.body.message = "Too many requests"
           /\ CeilSeconds(requests[ip].resetTime - now, resp'.body.retryAfter)
           /\ ip \in DOMAIN requests'
           /\ requests'[ip] = requests[ip]

\* C5: rejection outcome: a request of an identity with now <= windowResetAt
\* and count >= maxRequests is rejected with status 429 'Too many requests'
\* and retryAfter = ceil((windowResetAt - now) / 1000), and its record is
\* left unchanged.
RejectionOutcome == [][\A ip \in {getClientIp(c) : c \in RateClients} :
                         GuardStep(ip) => RejectionStep(ip)]_vars

\* a request was rejected half a second before the end of its window, with hint 1
RejectionOutcomeWitness ==
    /\ Rejected(resp)
    /\ resp.body.retryAfter = 1
    /\ Tracked(getClientIp(req))
    /\ requests[getClientIp(req)].resetTime - now = 500
    /\ requests[getClientIp(req)].count = maxRequests

\* C6: every rejection reports retryAfter >= 1.
RetryAfterAtLeastOne == Rejected(resp) => resp.body.retryAfter >= 1

\* the hint is never negative, and it is at least 1 strictly inside the window
RetryAfterInsideWindow ==
    Rejected(resp) =>
        /\ resp.body.retryAfter >= 0
        /\ (\A ip \in DOMAIN rejection :
               (rejection[ip] # None /\ Get(rejection[ip]).at < requests[ip].resetTime)
                   => Get(rejection[ip]).retryAfter >= 1)

\* a call of the guard for ip, made once the hint of ip's last rejection has elapsed
RetryHintStep(ip) ==
    (/\ ip \in DOMAIN rejection
     /\ rejection[ip] # None
     /\ now >= Get(rejection[ip]).at + Get(rejection[ip]).retryAfter * 1000)
        => Admitted(resp')

\* C7: the retry hint is sufficient: after a rejection of identity X at time t
\* with hint r, the next request of X at a time >= t + r * 1000 is admitted.
RetryHintSufficient == [][\A ip \in {getClientIp(c) : c \in RateClients} :
                            GuardStep(ip) => RetryHintStep(ip)]_vars

\* the same for a next request strictly later than t + r * 1000
RetryHintStrictStep(ip) ==
    (/\ ip \in DOMAIN rejection
     /\ rejection[ip] # None
     /\ now > Get(rejection[ip]).at + Get(rejection[ip]).retryAfter * 1000)
        => Admitted(resp')

RetryHintStrictlyLater == [][\A ip \in {getClientIp(c) : c \in RateClients} :
                               GuardStep(ip) => RetryHintStrictStep(ip)]_vars

(***************************************************************************)
(* Claims about the request pipeline (Spec)                                *)
(***************************************************************************)

\* C8: a request rejected by the rate limiter never reaches the store: the
\* guard's rejection ends the request, no handler runs for it, and the stored
\* collection is the same before and after it, whatever the request was.
RejectedNeverReachesStore ==
    [][/\ (pc = "guard" /\ Rejected(resp')) => (pc' = "idle" /\ webhooks' = webhooks)
       /\ (pc' = "handler" /\ pc # "handler") => (pc = "guard" /\ ~Rejected(resp'))
       /\ (webhooks' # webhooks) => (pc = "handler" /\ ~Rejected(resp))]_vars

\* a submission was rejected while the store holds an event
RejectedNeverReachesStoreWitness ==
    /\ pc = "idle"
    /\ Rejected(resp)
    /\ req.method = "POST"
    /\ Len(webhooks) = 1

ReadOrDelete(r) == r.method \in {"GET", "DELETE"}

\* C9: list, get-by-id and delete-by-id requests bypass the rate limiter: they
\* never create or change a rate-limit record and are never rejected with
\* 'Too many requests'.
ReadsBypassRateLimiter ==
    [][(pc = "guard" /\ pc' # "guard" /\ ReadOrDelete(req))
          => (requests' = requests /\ ~Rejected(resp'))]_vars

\* C9 as amended: list, get-by-id and delete-by-id requests pass through the
\* same rate limiter as submissions: the guard decides each of them before its
\* handler runs, and it either counts the request in the record of its
\* identity or, when that record is at maxRequests inside its window, rejects
\* it with 'Too many requests' and the handler is not run.
ReadsAreRateLimited ==
    [][/\ (pc = "guard" /\ pc' # "guard" /\ ReadOrDelete(req)) =>
            LET ip == getClientIp(req) IN
            \/ /\ pc' = "handler"
               /\ ip \in DOMAIN requests'
               /\ requests' # requests
            \/ /\ pc' = "idle"
               /\ Rejected(resp')
               /\ resp'.body.message = "Too many requests"
               /\ Tracked(ip) /\ InWindow(ip, now) /\ requests[ip].count >= maxRequests
       /\ (pc = "handler" /\ ReadOrDelete(req)) => Tracked(getClientIp(req))]_vars

\* a delete-by-id request was rejected with 'Too many requests'
ReadsAreRateLimitedWitness ==
    /\ pc = "idle"
    /\ req.method = "DELETE"
    /\ Rejected(resp)
    /\ resp.body.message = "Too many requests"

(***************************************************************************)
(* Claims about the service (ServiceSpec)                                  *)
(***************************************************************************)
StoredIds(ws) == Range(Keys(ws))

\* what a create call does
CreateStep ==
    /\ resp'.throws = None
    /\ resp'.returns.message = "Webhook received"
    /\ StoredIds(webhooks') \ StoredIds(webhooks) = {resp'.returns.id}
    /\ \A e \in getById(webhooks', resp'.returns.id) :
          /\ e.verified = verifySignature(webhookSecret, req'.body, req'.signature)
          /\ e.signature = req'.signature
          /\ e.source = req'.body.source
          /\ e.event = req'.body.event
          /\ e.payload = req'.body.payload

\* C10: verification failure is never a rejection: every create call, with the
\* signature absent, wrong or correct, saves exactly one new event, whose
\* verified field is the verifier's outcome and whose signature field is the
\* tag as provided, and returns {id, message: 'Webhook received'} with the id
\* of that event.
CreateAlwaysAccepts == [][issued' # issued => CreateStep]_vars

\* with a secret configured, a submission carrying a wrong tag was accepted,
\* is stored as not verified with that tag, and its id was returned
CreateAlwaysAcceptsWitness ==
    /\ webhookSecret # ""
    /\ req.method = "POST"
    /\ req.signature = Some(<<"0", "0", "0", "0">>)
    /\ \E i \in 1..Len(webhooks) :
          /\ webhooks[i].id = resp.returns.id
          /\ webhooks[i].verified = FALSE
          /\ webhooks[i].signature = req.signature
    /\ \E i \in 1..Len(webhooks) : webhooks[i].verified = TRUE

(***************************************************************************)
(* Claims about the signature verifier (VerifySpec)                        *)
(***************************************************************************)
\* the state is the outcome of a call of verifySignature
Verified == req.method = "POST"

\* C11: verify returns false, and never throws, whenever the configured secret
\* is empty or the provided tag is absent or the empty string, for every
\* payload; with an empty secret even the tag hexHMAC("", P) yields false.
NoProofIsNotVerified ==
    (Verified /\ (webhookSecret = "" \/ req.signature = None \/ req.signature = Some(<<>>)))
        => (resp.returns = FALSE /\ resp.throws = None)

\* without a secret, the tag computed under the empty secret did not verify
NoProofIsNotVerifiedWitness ==
    /\ Verified
    /\ webhookSecret = ""
    /\ req.signature = Some(hexHmac("", req.body))
    /\ resp.returns = FALSE
    /\ resp.throws = None

\* C12: verification correctness: with a non-empty secret S and signed content
\* P, verify(P, tag) is true for tag = hexHMAC(S, P), false for every string
\* obtained from tag by inverting one bit of the tag string, and false for the
\* tag of every content obtained from P by inverting one bit.
VerificationCorrectness ==
    (Verified /\ webhookSecret # "") =>
        LET tag == hexHmac(webhookSecret, req.body)
        IN  /\ req.signature = Some(tag) => resp.returns = TRUE
            /\ req.signature \in {Some(t) : t \in BitFlips(tag)} => resp.returns = FALSE
            /\ req.signature \in {Some(hexHmac(webhookSecret, d)) : d \in ContentFlips(req.body)}
                  => resp.returns = FALSE

\* the same, leaving out the one-bit changes that turn a letter of the tag
\* into its upper-case form
VerificationCorrectnessUpToCase ==
    (Verified /\ webhookSecret # "") =>
        LET tag == hexHmac(webhookSecret, req.body)
        IN  /\ req.signature = Some(tag) => resp.returns = TRUE
            /\ req.signature \in {Some(t) : t \in {u \in BitFlips(tag) :
                                                      hexDecode(u) # hexDecode(tag)}}
                  => resp.returns = FALSE
            /\ req.signature \in {Some(hexHmac(webhookSecret, d)) : d \in ContentFlips(req.body)}
                  => resp.returns = FALSE

\* a string made of an even number of hex digits only
WellFormedHex(str) == Len(str) % 2 = 0 /\ \A i \in 1..Len(str) : hexValue(str[i]) >= 0

\* C13: tag decoding: with a non-empty secret, verify returns false for every
\* provided tag that is not a well-formed hex string (a character that is not
\* a hex digit, an odd length) and for every tag whose decoded length differs
\* from the expected tag's byte length: only a string that is entirely valid
\* hex of the expected length can verify.
TagDecoding ==
    (Verified /\ webhookSecret # "" /\ resp.returns = TRUE) =>
        /\ WellFormedHex(Get(req.signature))
        /\ Len(Get(req.signature)) = Len(hexHmac(webhookSecret, req.body))

\* what holds instead: the decodable prefix of a tag that verifies is the
\* expected tag, up to the case of its letters
TagDecodingPrefix ==
    (Verified /\ webhookSecret # "" /\ resp.returns = TRUE) =>
        hexDecode(Get(req.signature)) = hexDecode(hexHmac(webhookSecret, req.body))

\* C14: timing independence: only buffers of equal length reach the
\* comparison, and for the expected tag of a payload the number of byte
\* positions the comparison goes through is the same for every provided tag
\* that reaches it, wherever the first differing byte is.
TimingIndependence ==
    (Verified /\ resp.compared # None) =>
        /\ Get(resp.compared).expected = Get(resp.compared).provided
        /\ \A other \in VerifyTags(req.body) :
              LET run == verifySignatureTrace(webhookSecret, req.body, other)
              IN  run.compared # None
                     => Get(run.compared).examined = Get(resp.compared).examined

\* a tag that differs from the expected one in its last byte only reached the
\* comparison, and so does a tag that differs from it in its first byte
TimingIndependenceWitness ==
    /\ Verified
    /\ resp.compared # None
    /\ resp.returns = FALSE
    /\ LET expected == hexDecode(hexHmac(webhookSecret, req.body))
           provided == hexDecode(Get(req.signature))
       IN  /\ provided[1] = expected[1]
           /\ provided[Len(provided)] # expected[Len(expected)]
           /\ \E other \in VerifyTags(req.body) :
                 /\ verifySignatureTrace(webhookSecret, req.body, other).compared # None
                 /\ hexDecode(Get(other))[1] # expected[1]

(***************************************************************************)
(* Claims about list queries (QuerySpec)                                   *)
(***************************************************************************)
\* the state is the outcome of storage.getAll(resp.options)
GetAllDone == "op" \in DOMAIN resp /\ resp.op = "getAll"

\* the state is the outcome of service.findAll(req.query)
FindAllDone == req.method = "GET" /\ req.path = "/webhooks" /\ "returns" \in DOMAIN resp

\* position of an event in the store: its rank in insertion order
Pos(id) == IndexOf(Keys(webhooks), id)

\* a filter is given when it is present and not the empty string
Given(filter) == filter # None /\ Get(filter) # ""

Matches(e, options) ==
    /\ Given(options.source) => e.source = Get(options.source)
    /\ Given(options.event) => e.event = Get(options.event)

\* ids of the stored events that match the filters
Matching(options) == {webhooks[i].id : i \in {j \in 1..Len(webhooks) : Matches(webhooks[j], options)}}

Ids(items) == {items[k].id : k \in 1..Len(items)}

\* C15: query ordering: the returned events are ordered by receivedAt
\* descending, and among events with equal receivedAt the most recently
\* inserted one comes first.
QueryOrdering ==
    GetAllDone =>
        LET items == resp.value.webhooks
        IN  \A i, j \in 1..Len(items) :
               i < j => \/ items[i].receivedAt > items[j].receivedAt
                        \/ /\ items[i].receivedAt = items[j].receivedAt
                           /\ Pos(items[i].id) > Pos(items[j].id)

\* what holds instead: among events with equal receivedAt the one inserted
\* first comes first
QueryOrderingStable ==
    GetAllDone =>
        LET items == resp.value.webhooks
        IN  \A i, j \in 1..Len(items) :
               i < j => \/ items[i].receivedAt > items[j].receivedAt
                        \/ /\ items[i].receivedAt = items[j].receivedAt
                           /\ Pos(items[i].id) < Pos(items[j].id)

\* C16: query filtering: for every store and every given source and/or event
\* filter, the matching set is exactly the stored events whose source equals
\* the source filter (if given) and whose event equals the event filter (if
\* given), by exact case-sensitive equality; total is the size of that set,
\* whatever page and limit are.  An empty-string filter counts as not given.
QueryFiltering ==
    GetAllDone =>
        /\ resp.value.total = Cardinality(Matching(resp.options))
        /\ Ids(resp.value.webhooks) \subseteq Matching(resp.options)
        /\ (resp.options.page = None /\ resp.options.limit = None /\ resp.value.total <= 10)
              => Ids(resp.value.webhooks) = Matching(resp.options)
        /\ \A other \in GetAllOptions :
              (other.source = resp.options.source /\ other.event = resp.options.event)
                  => getAll(webhooks, other).total = resp.value.total

\* both filters were given, and the store holds an event that matches both,
\* one whose source differs by case only and one whose event differs by case only
QueryFilteringWitness ==
    /\ GetAllDone
    /\ resp.options.source = Some("stripe")
    /\ resp.options.event = Some("push")
    /\ resp.options.page = None /\ resp.options.limit = None
    /\ resp.value.total = 1
    /\ Len(resp.value.webhooks) = 1
    /\ \E i \in 1..Len(webhooks) : webhooks[i].source = "Stripe" /\ webhooks[i].event = "push"
    /\ \E i \in 1..Len(webhooks) : webhooks[i].source = "stripe" /\ webhooks[i].event = "PUSH"

\* the matching events, ordered as the query orders them
Ordered(options) == sortByReceivedAtDesc(SelectSeq(webhooks, LAMBDA e : Matches(e, options)))

\* C17: pagination slice: for page >= 1 and limit >= 1, the query returns
\* exactly the elements at positions [(page-1)*limit, (page-1)*limit + limit)
\* of the ordered matching list, so at most limit items; when the range lies
\* beyond the list, or the store is empty, the result is an empty list with
\* the right total.
PaginationSlice ==
    (GetAllDone /\ resp.options.page # None /\ resp.options.limit # None) =>
        LET page == Get(resp.options.page)
            limit == Get(resp.options.limit)
            first == (page - 1) * limit
            ordered == Ordered(resp.options)
            items == resp.value.webhooks
        IN  /\ resp.value.total = Len(ordered)
            /\ Len(items) <= limit
            /\ Len(items) = IF first >= Len(ordered) THEN 0
                            ELSE IF first + limit > Len(ordered) THEN Len(ordered) - first
                            ELSE limit
            /\ \A k \in 1..Len(items) : items[k] = ordered[first + k]

\* page 2 of a store of three events, one per page: the first event saved,
\* which comes after the newer second one and before the third
PaginationSliceWitness ==
    /\ GetAllDone
    /\ resp.options.page = Some(2) /\ resp.options.limit = Some(1)
    /\ ~Given(resp.options.source) /\ ~Given(resp.options.event)
    /\ Len(webhooks) = 3
    /\ resp.value.total = 3
    /\ resp.value.webhooks = <<webhooks[1]>>
    /\ webhooks[2].receivedAt > webhooks[1].receivedAt
    /\ webhooks[3].receivedAt = webhooks[1].receivedAt

\* C18: list response metadata: findAll returns count = number of items in
\* the returned page, echoes page and limit (1 and 10 when absent), and
\* totalPages = ceil(totalMatching / limit); 25 events with limit 10 give
\* totalPages 3 and a page 2 of 10 items, 15 events give totalPages 2.
ListMetadata ==
    FindAllDone =>
        LET r == resp.returns
            total == Cardinality(Matching(req.query))
        IN  /\ r.count = Len(r.webhooks)
            /\ r.page = Default(req.query.page, 1)
            /\ r.limit = Default(req.query.limit, 10)
            /\ r.totalPages * r.limit >= total
            /\ (r.totalPages - 1) * r.limit < total
            /\ (Len(webhooks) = 25 /\ r.limit = 10)
                  => (r.totalPages = 3 /\ (r.page = 2 => r.count = 10))
            /\ (Len(webhooks) = 15 /\ r.limit = 10) => r.totalPages = 2

\* page 2 of 25 events, 10 per page
ListMetadataWitness ==
    /\ FindAllDone
    /\ Len(webhooks) = 25
    /\ req.query.page = Some(2) /\ req.query.limit = Some(10)
    /\ resp.returns.count = 10
    /\ resp.returns.totalPages = 3

(***************************************************************************)
(* Claims about deletion and lookup by id                                  *)
(***************************************************************************)
\* the step is a call of storage.delete(id)
StorageDeleteStep(id) == "op" \in DOMAIN resp' /\ resp'.op = "delete" /\ resp'.id = id

\* C19: idempotent delete: storage.delete(id) returns true exactly
\* when an event with that id was present, removes it and nothing else, and
\* returns false otherwise; deleting the same id twice in a row returns true
\* then false.
IdempotentDelete ==
    [][\A id \in StoreIds :
          StorageDeleteStep(id) =>
              /\ resp'.value = (\E i \in 1..Len(webhooks) : webhooks[i].id = id)
              /\ \A i \in 1..Len(webhooks') : webhooks'[i].id # id
              /\ Range(webhooks') = {e \in Range(webhooks) : e.id # id}
              /\ Len(webhooks') = IF resp'.value THEN Len(webhooks) - 1 ELSE Len(webhooks)
              /\ resp'.previous # None => resp'.value = FALSE]_vars

\* the same id was deleted twice in a row, with true then false, from a store
\* that still holds another event
IdempotentDeleteWitness ==
    /\ "op" \in DOMAIN resp
    /\ resp.op = "delete"
    /\ resp.previous = Some(TRUE)
    /\ resp.value = FALSE
    /\ Len(webhooks) >= 1

\* the service level (ServiceSpec): a delete of the id that the call just
\* before deleted throws NotFoundException
ServiceDeleteTwice ==
    [][(/\ now' = now
        /\ req.method = "DELETE" /\ req'.method = "DELETE" /\ req'.id = req.id
        /\ resp.throws = None /\ resp.returns = [message |-> "Webhook deleted successfully"])
          => resp'.throws = Some(NotFoundException)]_vars

\* the step is a call of findOne(id) or delete(id) of the service
ByIdStep == now' = now /\ req'.path = "/webhooks/:id"

\* C20: uniform not-found: findOne and delete called with an
\* identifier that is not in the store, syntactically invalid or a well-formed
\* UUID v4, throw the same NotFoundException 'Webhook not found' and leave the
\* store unchanged.
UniformNotFound ==
    [][(ByIdStep /\ \A i \in 1..Len(webhooks) : webhooks[i].id # req'.id)
          => /\ resp'.throws # None
             /\ Get(resp'.throws).status = 404
             /\ Get(resp'.throws).response.message = "Webhook not found"
             /\ \A id \in IdParams :
                   (\A i \in 1..Len(webhooks) : webhooks[i].id # id)
                       => /\ findOne(webhooks, id).throws = resp'.throws
                          /\ serviceDelete(webhooks, id).throws = resp'.throws
             /\ webhooks' = webhooks]_vars

\* a delete of a well-formed identifier that is not in the store was answered
\* 'Webhook not found' while the store holds another event
UniformNotFoundWitness ==
    /\ req.method = "DELETE"
    /\ isValidUuid(req.id)
    /\ "throws" \in DOMAIN resp
    /\ resp.throws = Some(NotFoundException)
    /\ Len(webhooks) >= 1
    /\ ~isValidUuid("not-a-uuid")

(***************************************************************************)
(* Claims about the stored events (ServiceSpec)                            *)
(***************************************************************************)
\* the identifiers create has assigned so far
AssignedIds == {randomUUID(k) : k \in 1..issued}

\* no two stored events share an id, getById returns the one event with the
\* id or nothing, and every stored id is one that create assigned
UniqueIds ==
    /\ \A i, j \in 1..Len(webhooks) : webhooks[i].id = webhooks[j].id => i = j
    /\ \A id \in AssignedIds \cup IdParams :
          /\ Cardinality(getById(webhooks, id)) <= 1
          /\ getById(webhooks, id) = {e \in Range(webhooks) : e.id = id}
    /\ StoredIds(webhooks) \subseteq AssignedIds

\* C21: uniqueness: in every reachable state no two stored events share an
\* id and getById(id) returns the one event with that id or nothing; an id
\* assigned by create is never assigned again, also after its event was
\* evicted or deleted.
Uniqueness ==
    /\ []UniqueIds
    /\ [][issued' # issued => /\ resp'.returns.id \notin AssignedIds
                              /\ resp'.returns.id \in StoredIds(webhooks')]_vars

\* a submission was accepted after the event of an earlier one was deleted or
\* evicted, and it got an id of its own
UniquenessWitness ==
    /\ issued >= 2
    /\ req.method = "POST"
    /\ Len(webhooks) = 1
    /\ webhooks[1].id = randomUUID(issued)
    /\ randomUUID(1) \notin StoredIds(webhooks)

\* C22: in every reachable state the receivedAt values of the stored events
\* are non-decreasing in insertion order: an event inserted later never has
\* a strictly earlier receivedAt than one inserted before it.
ReceivedAtMonotone ==
    \A i, j \in 1..Len(webhooks) : i < j => webhooks[i].receivedAt <= webhooks[j].receivedAt

\* the store holds two events or more, the last one received later than another
ReceivedAtMonotoneWitness ==
    /\ Len(webhooks) >= 2
    /\ \E i \in 1..Len(webhooks) : webhooks[i].receivedAt < webhooks[Len(webhooks)].receivedAt

\* C25: create/findOne round trip: the id returned by create has the UUID v4
\* format that findOne and delete accept, and findOne(id) right afterwards
\* returns an event with that id and the submitted source, event and payload.
CreateFindOneRoundTrip ==
    [][issued' # issued =>
          LET id == resp'.returns.id
              found == findOne(webhooks', id)
          IN  /\ isValidUuid(id)
              /\ found.throws = None
              /\ serviceDelete(webhooks', id).throws = None
              /\ found.returns.id = id
              /\ found.returns.source = req'.body.source
              /\ found.returns.event = req'.body.event
              /\ found.returns.payload = req'.body.payload]_vars

\* the event of the last submission was looked up by the id create returned
CreateFindOneRoundTripWitness ==
    /\ req.method = "GET"
    /\ req.path = "/webhooks/:id"
    /\ req.id = randomUUID(issued)
    /\ issued >= 1
    /\ resp.throws = None
    /\ resp.returns.id = req.id
    /\ resp.returns.source = "github"
    /\ resp.returns.payload = "q"

\* C23: event immutability: from the moment an event is stored until it is
\* evicted, deleted or cleared, every step (save of other events, list query,
\* lookup, delete of other ids, rate-limit decision) leaves all its fields
\* unchanged; verified is never recomputed.
EventImmutability ==
    [][\A i \in 1..Len(webhooks) :
          (\E j \in 1..Len(webhooks') : webhooks'[j].id = webhooks[i].id)
              => (\E j \in 1..Len(webhooks') : webhooks'[j] = webhooks[i])]_vars

\* a verified event is still in the store, as verified, after a lookup of it
\* that followed the submission of a second event
EventImmutabilityWitness ==
    /\ pc = "idle"
    /\ req.method = "GET" /\ req.path = "/webhooks/:id"
    /\ resp.status = 200
    /\ Len(webhooks) = 2
    /\ webhooks[1].id = req.id
    /\ webhooks[1].verified = TRUE
    /\ webhooks[2].verified = FALSE

(***************************************************************************)
(* Claims about degenerate capacities (StoreSpec)                          *)
(***************************************************************************)
\* C26: capacity zero: with configured capacity 0, the store is empty
\* (count() = 0) after every save.
CapacityZeroStaysEmpty ==
    (maxStorageSize = 0 /\ "op" \in DOMAIN resp /\ resp.op = "save") => count(webhooks) = 0

\* what holds instead: with capacity 0 the event just saved is in the store
CapacityZeroKeepsLast ==
    (maxStorageSize = 0 /\ "op" \in DOMAIN resp /\ resp.op = "save")
        => (count(webhooks) >= 1 /\ resp.value \in Range(webhooks))

(***************************************************************************)
(* Claims about client identities (IdentitySpec, RateSpec)                 *)
(***************************************************************************)
\* the first address of each forwarded-for header, trimmed
FirstAddress(header) ==
    CASE header = "a, proxy" -> "a"
      [] header = "  a  ,proxy" -> "a"
      [] header = "a" -> "a"
      [] header = "" -> ""
      [] header = " , b" -> ""

\* the identity the claim gives to a request
ClaimedIdentity(r) ==
    IF r.forwardedFor # None THEN FirstAddress(Get(r.forwardedFor))
    ELSE IF r.ip # "" THEN r.ip
    ELSE IF r.remoteAddress # "" THEN r.remoteAddress
    ELSE "unknown"

\* C27: client identity resolution: when a forwarded-for header is present
\* the identity is the first address of its chain, trimmed; otherwise it is
\* the direct peer address; only when neither is available it is 'unknown',
\* so that all such requests share one budget.  The identity of a request is
\* the key of the one record its decision reads and writes.
IdentityResolution ==
    [][LET id == ClaimedIdentity(req')
       IN  /\ id \in DOMAIN requests'
           /\ \A other \in (DOMAIN requests \cup DOMAIN requests') \ {id} :
                 /\ other \in DOMAIN requests /\ other \in DOMAIN requests'
                 /\ requests'[other] = requests[other]
           /\ Admitted(resp') => (id \notin DOMAIN requests \/ requests'[id] # requests[id])
           /\ Rejected(resp') => (id \in DOMAIN requests /\ requests[id].count >= maxRequests)
           /\ (id = "unknown") = (req'.forwardedFor = None /\ req'.ip = ""
                                   /\ req'.remoteAddress = "")]_vars

\* a request with no address at all was rejected on the budget of 'unknown',
\* and a header with white space around its first address was counted for "a"
IdentityResolutionWitness ==
    /\ req.forwardedFor = None /\ req.ip = "" /\ req.remoteAddress = ""
    /\ Rejected(resp)
    /\ maxRequests >= 1
    /\ "unknown" \in DOMAIN requests
    /\ requests["unknown"].count = maxRequests
    /\ "a" \in DOMAIN requests
    /\ requests["a"].count = 2
    /\ "" \in DOMAIN requests
    /\ "c" \in DOMAIN requests

\* C28: rate-limit records are never deleted: once an identity has a record
\* it has one in every later state, and no step other than a request changes
\* any record (the passing of time does not: there is no background expiry).
RecordsNeverDeleted ==
    [][/\ DOMAIN requests \subseteq DOMAIN requests'
       /\ now' # now => requests' = requests
       /\ requests' # requests =>
             /\ getClientIp(req') \in DOMAIN requests'
             /\ \A ip \in DOMAIN requests \ {getClientIp(req')} : requests'[ip] = requests[ip]]_vars

\* two identities are tracked; the window of one of them has expired, and
\* the other one opened its window after that
RecordsNeverDeletedWitness ==
    /\ Cardinality(DOMAIN requests) = 2
    /\ windowMs > 0
    /\ \E ip \in DOMAIN requests : now >= requests[ip].resetTime + 500
    /\ \E ip \in DOMAIN requests : now <= requests[ip].resetTime

\* C30: per-identity isolation: a request of identity X, admitted or
\* rejected, leaves the record (or the absence of a record) of every other
\* identity Y unchanged, so that the decision a request of Y would get is the
\* same before and after it.
PerIdentityIsolation ==
    [][\A x \in {getClientIp(c) : c \in RateClients} :
          GuardStep(x) =>
              \A y \in {getClientIp(c) : c \in RateClients} \ {x} :
                 /\ (y \in DOMAIN requests') = (y \in DOMAIN requests)
                 /\ y \in DOMAIN requests => requests'[y] = requests[y]
                 /\ canActivate(requests', maxRequests, windowMs, y, now).throws
                       = canActivate(requests, maxRequests, windowMs, y, now).throws]_vars

\* a request of one identity was rejected while the other identity is inside
\* its window with budget left
PerIdentityIsolationWitness ==
    /\ Rejected(resp)
    /\ maxRequests = 2
    /\ \E y \in DOMAIN requests :
          /\ y # getClientIp(req)
          /\ requests[y].count = 1
          /\ InWindow(y, now)

(***************************************************************************)
(* Claims about requests in flight together (ConcRateSpec, ConcStoreSpec)  *)
(***************************************************************************)
\* C29: rate-limiter atomicity: each decision is one indivisible step, so
\* under any interleaving of requests in flight no update is lost: the count
\* of a record is exactly the number of requests admitted in its window, and
\* (maxRequests >= 1) never more than maxRequests are admitted in a window,
\* so two requests that arrived at count = maxRequests - 1 are not both
\* admitted in it.
RateLimiterAtomicity ==
    \A ip \in DOMAIN requests :
        /\ requests[ip].count = AdmittedInWindow(ip)
        /\ maxRequests >= 1 => AdmittedInWindow(ip) <= maxRequests

\* a request that arrived while the count of its identity was maxRequests - 1
\* has just been rejected: since its arrival another request of the identity
\* was admitted in the same window, and the window holds exactly maxRequests
RateLimiterAtomicityWitness ==
    /\ maxRequests = 2
    /\ resp[0].status = 429
    /\ resp[0].seen # None
    /\ Get(resp[0].seen).count = maxRequests - 1
    /\ Get(resp[0].seen).resetTime = requests[resp[0].ip].resetTime
    /\ requests[resp[0].ip].count = maxRequests
    /\ AdmittedInWindow(resp[0].ip) = maxRequests

\* C24: eviction order under concurrency: when A's save completes before B's
\* save begins, A's event is evicted no later than B's (B gone from the store
\* implies A gone), whether A's receivedAt is earlier than, equal to or later
\* than B's: eviction follows the order of the save calls.
EvictionFollowsSaveOrder ==
    \A i, j \in 1..Len(fifoLog.saved) :
        i < j /\ ~Has(webhooks, fifoLog.saved[j].id) => ~Has(webhooks, fifoLog.saved[i].id)

\* B was prepared first and carries the earlier receivedAt, yet A's save ran
\* first: A has been evicted while B is still stored
EvictionFollowsSaveOrderWitness ==
    /\ Len(fifoLog.saved) >= 2
    /\ fifoLog.saved[1].id = randomUUID(2)
    /\ fifoLog.saved[2].id = randomUUID(1)
    /\ fifoLog.saved[1].receivedAt > fifoLog.saved[2].receivedAt
    /\ ~Has(webhooks, fifoLog.saved[1].id)
    /\ Has(webhooks, fifoLog.saved[2].id)

(***************************************************************************)
(* Claims about the records of the rate limiter (RateSpec)                 *)
(***************************************************************************)
\* C31: record invariant: with maxRequests >= 1 every record has
\* 1 <= count <= maxRequests, and its windowResetAt is the time of the request
\* that opened its window plus windowDurationMs.
RecordInvariant ==
    maxRequests >= 1 =>
        \A ip \in DOMAIN requests :
            /\ 1 <= requests[ip].count
            /\ requests[ip].count <= maxRequests
            /\ requests[ip].resetTime = admitted[ip].opened + windowMs

\* an identity filled its second window, opened after time 0, and was then rejected
RecordInvariantWitness ==
    /\ maxRequests = 2
    /\ Rejected(resp)
    /\ \E ip \in DOMAIN requests :
          /\ getClientIp(req) = ip
          /\ admitted[ip].windows >= 2
          /\ admitted[ip].opened > 0
          /\ requests[ip].count = maxRequests

\* the last request of ip was rejected, in a window that ends before the horizon
Starved(ip) ==
    /\ ip \in DOMAIN rejection
    /\ rejection[ip] # None
    /\ requests[ip].resetTime < Horizon

\* the last request of ip was admitted
Readmitted(ip) == ip \in DOMAIN rejection /\ rejection[ip] = None

\* what a call of the guard for ip does to the window of ip
NoRestartStep(ip) ==
    /\ Rejected(resp') => requests' = requests
    /\ (Tracked(ip) /\ requests'[ip].resetTime # requests[ip].resetTime)
          => /\ Admitted(resp')
             /\ now > requests[ip].resetTime
             /\ requests'[ip] = [count |-> 1, resetTime |-> now + windowMs]
    /\ (Tracked(ip) /\ now > requests[ip].resetTime) => Admitted(resp')

\* C32: no starvation by retrying: a rejected request leaves windowResetAt as
\* it is (it changes only when an admitted request opens a new window), a
\* request at a time strictly after windowResetAt is admitted, and, when time
\* advances and the identity keeps sending, a rejected identity is eventually
\* admitted again.
NoStarvation ==
    /\ [][\A ip \in {getClientIp(c) : c \in LiveClients} :
             GuardStep(ip) => NoRestartStep(ip)]_vars
    /\ \A ip \in {getClientIp(c) : c \in LiveClients} : Starved(ip) ~> Readmitted(ip)

\* an identity whose last request had been rejected was admitted once its
\* window had passed, and opened a new window
NoStarvationWitness ==
    /\ Admitted(resp)
    /\ \E ip \in DOMAIN requests :
          /\ getClientIp(req) = ip
          /\ admitted[ip].afterRejection
          /\ admitted[ip].windows >= 2
          /\ admitted[ip].opened = now
          /\ requests[ip] = [count |-> 1, resetTime |-> now + windowMs]

(***************************************************************************)
(* Claims about what save and delete leave alone (StoreSpec)               *)
(***************************************************************************)
\* the step is the call save(w)
SaveStep(w) == "op" \in DOMAIN resp' /\ resp'.op = "save" /\ resp'.value = w

\* save(w) replaced the event stored under w.id and touched nothing else
ReplacedOnly(w) ==
    /\ count(webhooks') = count(webhooks)
    /\ getById(webhooks', w.id) = {w}
    /\ \A id \in StoreIds \ {w.id} : getById(webhooks', id) = getById(webhooks, id)

ResaveReplacesOnlyBelowCapacity ==
    [][\A w \in TestWebhooks :
          (SaveStep(w) /\ Has(webhooks, w.id) /\ count(webhooks) < maxStorageSize)
              => ReplacedOnly(w)]_vars

\* save(w) removed nothing and added one event
AddedOnly(w) ==
    /\ count(webhooks') = count(webhooks) + 1
    /\ \A id \in StoreIds \ {w.id} : getById(webhooks', id) = getById(webhooks, id)
    /\ getById(webhooks', w.id) = {w}

\* C34: eviction only when full: a save of a new id into a store that holds
\* fewer events than its capacity removes nothing and raises count() by
\* exactly 1, in particular when a delete has just freed a slot; and count()
\* changes by at most 1 in any single save.
EvictionOnlyWhenFull ==
    [][\A w \in TestWebhooks :
          SaveStep(w) =>
             /\ (~Has(webhooks, w.id) /\ count(webhooks) < maxStorageSize) => AddedOnly(w)
             /\ count(webhooks') - count(webhooks) \in {-1, 0, 1}]_vars

\* a delete took an event out of a full store of two, and the save of a new
\* id that followed filled the store again without evicting the other event
EvictionOnlyWhenFullWitness ==
    /\ "op" \in DOMAIN resp
    /\ resp.op = "save"
    /\ resp.afterDelete
    /\ resp.sizeBefore = 1
    /\ maxStorageSize = 2
    /\ Len(webhooks) = 2
    /\ webhooks[2] = resp.value
    /\ webhooks[1].id # ""

\* the step is a call delete(id) that returned true
DeleteStep(id) ==
    "op" \in DOMAIN resp' /\ resp'.op = "delete" /\ resp'.id = id /\ resp'.value

\* a comes before b in the insertion order of ws
Before(ws, a, b) == IndexOf(Keys(ws), a) < IndexOf(Keys(ws), b)

\* C35: delete frame: a successful delete(id) removes exactly the event with
\* that id: count() drops by 1, getById(id) becomes absent, every other event
\* stays present with unchanged fields, and the relative insertion order of
\* the remaining events is unchanged.
DeleteFrame ==
    [][\A id \in StoreIds :
          DeleteStep(id) =>
             /\ count(webhooks') = count(webhooks) - 1
             /\ getById(webhooks', id) = {}
             /\ \A other \in StoreIds \ {id} : getById(webhooks', other) = getById(webhooks, other)
             /\ \A a, b \in StoredIds(webhooks') :
                   Before(webhooks', a, b) <=> Before(webhooks, a, b)]_vars

\* the first of three stored events was deleted; the other two are left, in
\* the order they had
DeleteFrameWitness ==
    /\ "op" \in DOMAIN resp
    /\ resp.op = "delete"
    /\ resp.value
    /\ Len(webhooks) = 2
    /\ webhooks[1].id = "a"
    /\ webhooks[2].id = "b"
    /\ resp.id = ""

(***************************************************************************)
(* Claims about the pages of a list query (QuerySpec)                      *)
(***************************************************************************)
\* the items findAll returns for page k of the query just made
PageOf(k) == findAll(webhooks, [req.query EXCEPT !.page = Some(k)]).returns.webhooks

\* C36: pages partition the result: for a fixed store, fixed filters and a
\* fixed limit, the pages 1..totalPages of findAll put end to end are the
\* full ordered matching list, every matching event is on exactly one page,
\* every page before the last holds exactly limit items, and every page after
\* totalPages is empty.
PagesPartition ==
    FindAllDone =>
        LET limit == resp.returns.limit
            totalPages == resp.returns.totalPages
            ordered == Ordered(req.query)
        IN  /\ \A k \in 1..(totalPages - 1) : Len(PageOf(k)) = limit
            /\ totalPages >= 1 => Len(PageOf(totalPages)) \in 1..limit
            /\ \A k \in (totalPages + 1)..(totalPages + 2) : PageOf(k) = <<>>
            /\ Len(ordered) = IF totalPages = 0 THEN 0
                              ELSE (totalPages - 1) * limit + Len(PageOf(totalPages))
            /\ \A n \in 1..Len(ordered) :
                  PageOf(((n - 1) \div limit) + 1)[((n - 1) % limit) + 1] = ordered[n]
            /\ \A id \in Matching(req.query) :
                  Cardinality({k \in 1..totalPages : id \in Ids(PageOf(k))}) = 1

\* the last of the three pages of 25 events, 10 per page, holds 5 of them
PagesPartitionWitness ==
    /\ FindAllDone
    /\ Len(webhooks) = 25
    /\ req.query.page = Some(3) /\ req.query.limit = Some(10)
    /\ resp.returns.totalPages = 3
    /\ Len(resp.returns.webhooks) = 5
    /\ resp.returns.webhooks = PageOf(3)

\* the options with every empty-string filter left out
Omitted(options) ==
    [options EXCEPT !.source = IF @ = Some("") THEN None ELSE @,
                    !.event = IF @ = Some("") THEN None ELSE @]

\* C37: an empty-string source or event filter is treated as no filter: the
\* query returns the same items and the same total as the same query with
\* that filter omitted, the total being the number of events that match the
\* filters left.
EmptyFilterIsNoFilter ==
    (GetAllDone /\ Omitted(resp.options) # resp.options) =>
        /\ resp.value.webhooks = getAll(webhooks, Omitted(resp.options)).webhooks
        /\ resp.value.total = getAll(webhooks, Omitted(resp.options)).total
        /\ resp.value.total = Cardinality(Matching(Omitted(resp.options)))

\* both filters were empty strings and the query returned the three stored events
EmptyFilterIsNoFilterWitness ==
    /\ GetAllDone
    /\ resp.options.source = Some("")
    /\ resp.options.event = Some("")
    /\ Len(webhooks) = 3
    /\ resp.value.total = 3
    /\ Ids(resp.value.webhooks) = StoredIds(webhooks)

=============================================================================
